---- MODULE Spec2Model ----
(***************************************************************************)
(* A/B-test statistical inference engine of ecommerce-analytics            *)
(* (src/src/analytics/ab_testing).  Every procedure of the engine is a     *)
(* pure function; the state of the model is the last call made by a        *)
(* caller: the procedure called (op), its arguments (args), the value it   *)
(* returned (ret) and the exception it raised, if any (err).               *)
(*                                                                         *)
(* Numbers.  The multiple-comparison corrector works on binary floating    *)
(* point numbers.  They are modelled as a binary floating point format of  *)
(* MantBits significand bits with round-to-nearest-even, the rounding of   *)
(* IEEE-754, on the window [0, 4]: a value x is the integer x * One.       *)
(* The decimal rounding round(x, 6) is exact on these values.              *)
(***************************************************************************)
EXTENDS Integers, Naturals, Sequences, FiniteSets, TLC

VARIABLES op, args, ret, err, pcg, global_rng, kept, threads, heap

vars == <<op, args, ret, err, pcg, global_rng, kept, threads, heap>>

\* what a call of a procedure that draws no random number leaves alone: the
\* stream of the seeded generator (pcg), the process-global generator
\* (global_rng), the result a caller has kept (kept), the calls running in
\* threads (threads) and the objects they hold (heap)
env == <<pcg, global_rng, kept, threads, heap>>

NoError == [type |-> "none"]

Min(a, b) == IF a <= b THEN a ELSE b
Max(a, b) == IF a >= b THEN a ELSE b

(***************************************************************************)
(* Bounds of the model.                                                    *)
(***************************************************************************)
\* longest list of p-values handed to a correction
MaxN == 3
\* significand bits of the floating point format
MantBits == 23

(***************************************************************************)
(* Floating point arithmetic (Python float / numpy float64 operators       *)
(* *, / of corrections.py).                                                *)
(***************************************************************************)
\* the float 1.0; values below 2^MantBits units are spaced one unit apart
One == 2^(MantBits + 4)

RECURSIVE ShiftOf(_)
\* number of low bits a value loses when it is kept on MantBits bits
ShiftOf(x) == IF x < 2^MantBits THEN 0 ELSE 1 + ShiftOf(x \div 2)

\* round-to-nearest-even of the exact quotient num / den to a multiple of 1
RoundHalfEven(num, den) ==
    LET q == num \div den
        r == num % den
    IN  IF 2 * r > den \/ (2 * r = den /\ q % 2 = 1) THEN q + 1 ELSE q

\* x * k of a float x by an int k: the exact product, rounded
FlMul(x, k) ==
    LET s == ShiftOf(x * k)
    IN  RoundHalfEven(x * k, 2^s) * 2^s

\* x / k of a float x by an int k: the exact quotient, rounded
FlDiv(x, k) ==
    LET s == ShiftOf(x \div k)
    IN  RoundHalfEven(x, k * 2^s) * 2^s

\* a value the format represents exactly
IsFloat(x) == FlMul(x, 1) = x

(***************************************************************************)
(* round(x, 6): the multiple of 10^-6 nearest to the float x, ties to      *)
(* even, as an integer number of millionths.  x * 10^6 / One is            *)
(* x * 15625 / 2^G, computed on the three limbs of x so that no            *)
(* intermediate product exceeds 31 bits.                                   *)
(***************************************************************************)
Round6(x) ==
    LET G  == MantBits - 2
        g1 == G \div 2
        g2 == G - g1
        a  == x \div 2^G
        b  == x % 2^G
        c  == b \div 2^g1
        d  == b % 2^g1
        u  == d * 15625
        v  == c * 15625 + (u \div 2^g1)
        ip == a * 15625 + (v \div 2^g2)
        fr == (v % 2^g2) * 2^g1 + (u % 2^g1)
    IN  IF 2 * fr > 2^G \/ (2 * fr = 2^G /\ ip % 2 = 1) THEN ip + 1 ELSE ip

(***************************************************************************)
(* Inputs: p-values in [0, 1] and significance levels, as floats.          *)
(***************************************************************************)
\* 0, ~1.0e-7, ~4.9e-7, ~0.01, ~0.03, ~0.0416675 (just above a 6-decimal
\* midpoint), ~0.0416735 (just below one), 1.0 at MantBits = 23
PVals == {0, 13, 66, 1342177, 4026532, 5592518, 5593322, One}

\* ~0.03, ~0.05, 1.0
Alphas == {4026532, 6710886, One}

PLists == UNION {[1..n -> PVals] : n \in 0..MaxN}

\* np.argsort(p_values): a permutation of the positions that sorts the
\* values; the order of equal values is whatever the sort makes it
ArgSorts(p_values) ==
    LET n == Len(p_values)
    IN  {f \in [1..n -> 1..n] :
            /\ \A i, j \in 1..n : i # j => f[i] # f[j]
            /\ \A i \in 1..n : i < n => p_values[f[i]] <= p_values[f[i + 1]]}

(***************************************************************************)
(* corrections.py                                                          *)
(***************************************************************************)
Record(p, corrected, alpha) ==
    [original_p  |-> Round6(p),
     corrected_p |-> Round6(corrected),
     significant |-> corrected < alpha]

bonferroni(p_values, alpha) ==
    LET n == Len(p_values)
    IN  [i \in 1..n |-> Record(p_values[i], Min(FlMul(p_values[i], n), One), alpha)]

RECURSIVE RunningMax(_, _)
\* corrected[i] = max(corrected[i], corrected[i - 1]) for i = 1 .. n-1
RunningMax(c, r) == IF r = 1 THEN c[1] ELSE Max(c[r], RunningMax(c, r - 1))

RECURSIVE RunningMinFromEnd(_, _)
\* corrected[i] = min(corrected[i], corrected[i + 1]) for i = n-2 .. 0
RunningMinFromEnd(c, r) ==
    IF r = Len(c) THEN c[r] ELSE Min(c[r], RunningMinFromEnd(c, r + 1))

\* the records left in the order of the ranks
MapBackByRank(p_values, indices, corrected, alpha) ==
    [r \in 1..Len(p_values) |-> Record(p_values[indices[r]], corrected[r], alpha)]

\* results[orig_idx] = record of rank, for rank, orig_idx in enumerate(indices)
MapBack(p_values, indices, corrected, alpha) ==
    LET n == Len(p_values)
        rank(i) == CHOOSE r \in 1..n : indices[r] = i
    IN  [i \in 1..n |-> Record(p_values[i], corrected[rank(i)], alpha)]

\* Holm with the multiplier growing with the rank: p * (n + i)
holm_bonferroni_rank_up(p_values, alpha, indices) ==
    LET n == Len(p_values)
        sorted_p == [r \in 1..n |-> p_values[indices[r]]]
        stepped  == [r \in 1..n |-> FlMul(sorted_p[r], n + (r - 1))]
        mono     == [r \in 1..n |-> RunningMax(stepped, r)]
        capped   == [r \in 1..n |-> Min(mono[r], One)]
    IN  MapBack(p_values, indices, capped, alpha)

\* Holm without the forward maximum
holm_bonferroni_no_max(p_values, alpha, indices) ==
    LET n == Len(p_values)
        sorted_p == [r \in 1..n |-> p_values[indices[r]]]
        stepped  == [r \in 1..n |-> FlMul(sorted_p[r], n - (r - 1))]
        capped   == [r \in 1..n |-> Min(stepped[r], One)]
    IN  MapBack(p_values, indices, capped, alpha)

holm_bonferroni(p_values, alpha, indices) ==
    LET n == Len(p_values)
        sorted_p == [r \in 1..n |-> p_values[indices[r]]]
        stepped  == [r \in 1..n |-> FlMul(sorted_p[r], n - (r - 1))]
        mono     == [r \in 1..n |-> RunningMax(stepped, r)]
        capped   == [r \in 1..n |-> Min(mono[r], One)]
    IN  MapBack(p_values, indices, capped, alpha)

\* Benjamini-Hochberg without the step that enforces monotonicity
benjamini_hochberg_no_step(p_values, alpha, indices) ==
    LET n == Len(p_values)
        sorted_p == [r \in 1..n |-> p_values[indices[r]]]
        stepped  == [r \in 1..n |-> FlDiv(FlMul(sorted_p[r], n), r)]
        capped   == [r \in 1..n |-> Min(stepped[r], One)]
    IN  MapBack(p_values, indices, capped, alpha)

benjamini_hochberg(p_values, alpha, indices) ==
    LET n == Len(p_values)
        sorted_p == [r \in 1..n |-> p_values[indices[r]]]
        stepped  == [r \in 1..n |-> FlDiv(FlMul(sorted_p[r], n), r)]
        mono     == [r \in 1..n |-> RunningMinFromEnd(stepped, r)]
        capped   == [r \in 1..n |-> Min(mono[r], One)]
    IN  MapBack(p_values, indices, capped, alpha)

(***************************************************************************)
(* Method names are strings: sequences of characters, so that              *)
(* method.lower() is a computation.                                        *)
(***************************************************************************)
UpperCase == <<"A","B","C","D","E","F","G","H","I","J","K","L","M",
               "N","O","P","Q","R","S","T","U","V","W","X","Y","Z">>
LowerCase == <<"a","b","c","d","e","f","g","h","i","j","k","l","m",
               "n","o","p","q","r","s","t","u","v","w","x","y","z">>

LowerChar(ch) ==
    IF \E k \in 1..26 : UpperCase[k] = ch
    THEN LowerCase[CHOOSE k \in 1..26 : UpperCase[k] = ch]
    ELSE ch

\* the lookup without the lowering of the name
LowerNot(s) == s

\* str.lower()
Lower(s) == [k \in 1..Len(s) |-> LowerChar(s[k])]

S_bonferroni == <<"b","o","n","f","e","r","r","o","n","i">>
S_holm_bonferroni ==
    <<"h","o","l","m","-","b","o","n","f","e","r","r","o","n","i">>
S_holm == <<"h","o","l","m">>
S_benjamini_hochberg ==
    <<"b","e","n","j","a","m","i","n","i","-","h","o","c","h","b","e","r","g">>
S_bh == <<"b","h">>
S_fdr == <<"f","d","r">>

\* list(methods.keys()), in the order the dict literal gives them
MethodKeys ==
    <<S_bonferroni, S_holm_bonferroni, S_holm, S_benjamini_hochberg, S_bh, S_fdr>>

\* the names a caller passes
MethodNames ==
    {S_bonferroni, S_holm_bonferroni, S_holm, S_benjamini_hochberg, S_bh, S_fdr,
     <<"B","H">>, <<"H","o","l","m">>, <<"F","d","R">>,
     <<>>, <<"i","n","v","a","l","i","d">>}

\* methods.get(method.lower()): the name of the function, "None" without one
MethodLookup(method) ==
    LET key == Lower(method)
    IN  CASE key = S_bonferroni -> "bonferroni"
          [] key = S_holm_bonferroni -> "holm_bonferroni"
          [] key = S_holm -> "holm_bonferroni"
          [] key = S_benjamini_hochberg -> "benjamini_hochberg"
          [] key = S_bh -> "benjamini_hochberg"
          [] key = S_fdr -> "benjamini_hochberg"
          [] OTHER -> "None"

\* quartile of the distribution sampled that a word of a generator's
\* stream selects
Levels == 1..3

\* the streams of a bit generator, as the words of one period
Streams == [1..3 -> Levels]

NoCall == [op |-> "none"]

Idle ==
    /\ op = "none"
    /\ args = [p_values |-> <<>>]
    /\ ret = <<>>
    /\ err = NoError
    /\ kept = NoCall

\* no call made yet; the generators are in one given state
\* the threads that may call the engine at the same time
Threads == {1, 2}

\* no DataFrame, no Generator
NoFrame == [dtype |-> "none", rows |-> <<>>]
NoGenerator == [stream |-> <<>>, pos |-> 0]

\* a thread that is in no call
IdleThread ==
    [pc |-> "idle", op |-> "none", args |-> [p_values |-> <<>>], given |-> NoFrame, df |-> 0,
     samples_c |-> <<>>, samples_t |-> <<>>, ret |-> <<>>, overlapped |-> FALSE]

\* the objects of the heap: frame 0 is the DataFrame the callers hold, and
\* frame t and generator t are what the call of thread t allocates
EmptyHeap(df) ==
    [frames |-> [c \in {0} \cup Threads |-> IF c = 0 THEN df ELSE NoFrame],
     generators |-> [c \in Threads |-> NoGenerator]]

\* no call runs in a thread
NoThreads ==
    /\ threads = [t \in Threads |-> IdleThread]
    /\ heap = EmptyHeap(NoFrame)

Init ==
    /\ Idle
    /\ NoThreads
    /\ pcg = [i \in 1..3 |-> 1]
    /\ global_rng = [i \in 1..3 |-> 1]

\* the caller drops the result of a call; the engine keeps nothing of it
Discard ==
    /\ op # "none"
    /\ op' = "none"
    /\ args' = [p_values |-> <<>>]
    /\ ret' = <<>>
    /\ err' = NoError
    /\ UNCHANGED env

Bonferroni ==
    /\ op = "none"
    /\ UNCHANGED env
    /\ \E p \in PLists, a \in Alphas :
        /\ op' = "bonferroni"
        /\ args' = [p_values |-> p, alpha |-> a]
        /\ ret' = bonferroni(p, a)
        /\ err' = NoError

HolmBonferroni ==
    /\ op = "none"
    /\ UNCHANGED env
    /\ \E p \in PLists, a \in Alphas :
        \E indices \in ArgSorts(p) :
            /\ op' = "holm_bonferroni"
            /\ args' = [p_values |-> p, alpha |-> a]
            /\ ret' = holm_bonferroni(p, a, indices)
            /\ err' = NoError

BenjaminiHochberg ==
    /\ op = "none"
    /\ UNCHANGED env
    /\ \E p \in PLists, a \in Alphas :
        \E indices \in ArgSorts(p) :
            /\ op' = "benjamini_hochberg"
            /\ args' = [p_values |-> p, alpha |-> a]
            /\ ret' = benjamini_hochberg(p, a, indices)
            /\ err' = NoError

\* fn = methods.get(method.lower()); raise ValueError if fn is None;
\* return fn(p_values, alpha)
apply_correction(p_values, method, alpha, indices) ==
    LET fn == MethodLookup(method)
    IN  CASE fn = "None" ->
               [ret |-> <<>>,
                err |-> [type |-> "ValueError", method |-> method,
                         available |-> MethodKeys]]
          [] fn = "bonferroni" ->
               [ret |-> bonferroni(p_values, alpha), err |-> NoError]
          [] fn = "holm_bonferroni" ->
               [ret |-> holm_bonferroni(p_values, alpha, indices), err |-> NoError]
          [] fn = "benjamini_hochberg" ->
               [ret |-> benjamini_hochberg(p_values, alpha, indices), err |-> NoError]

ApplyCorrection ==
    /\ op = "none"
    /\ UNCHANGED env
    /\ \E p \in PLists, a \in Alphas, method \in MethodNames :
        \E indices \in ArgSorts(p) :
            /\ op' = "apply_correction"
            /\ args' = [p_values |-> p, alpha |-> a, method |-> method]
            /\ ret' = apply_correction(p, method, a, indices).ret
            /\ err' = apply_correction(p, method, a, indices).err

NextCorrections ==
    \/ Bonferroni
    \/ HolmBonferroni
    \/ BenjaminiHochberg
    \/ ApplyCorrection
    \/ Discard

(***************************************************************************)
(* Properties of the multiple-comparison corrector.                        *)
(***************************************************************************)
CorrectionOps == {"bonferroni", "holm_bonferroni", "benjamini_hochberg"}

SigCount(records) ==
    Cardinality({i \in 1..Len(records) : records[i].significant})

\* C1: for every list of p-values in [0,1] and each of bonferroni,
\* holm_bonferroni and benjamini_hochberg, every returned record has
\* original_p <= corrected_p <= 1.
C1_CorrectedBetweenOriginalAndOne ==
    op \in CorrectionOps =>
        \A i \in 1..Len(ret) :
            /\ ret[i].original_p <= ret[i].corrected_p
            /\ ret[i].corrected_p <= 1000000

\* C2: on the same p-values and alpha, holm_bonferroni and
\* benjamini_hochberg each flag at least as many records significant as
\* bonferroni does.
C2_AtLeastBonferroniCount ==
    op \in {"holm_bonferroni", "benjamini_hochberg"} =>
        SigCount(ret) >= SigCount(bonferroni(args.p_values, args.alpha))

\* C2 witness: a call that flags strictly more than bonferroni, which flags some
C2_Witness ==
    /\ op \in {"holm_bonferroni", "benjamini_hochberg"}
    /\ SigCount(bonferroni(args.p_values, args.alpha)) >= 1
    /\ SigCount(ret) > SigCount(bonferroni(args.p_values, args.alpha))

\* C3 as claimed: in the records of benjamini_hochberg, whenever
\* original_p[i] <= original_p[j], corrected_p[i] <= corrected_p[j].
C3_MonotoneInReportedOriginal ==
    op = "benjamini_hochberg" =>
        \A i, j \in 1..Len(ret) :
            ret[i].original_p <= ret[j].original_p
                => ret[i].corrected_p <= ret[j].corrected_p

\* C3 amended: in the records of benjamini_hochberg, whenever the input
\* p-values satisfy p_values[i] <= p_values[j], corrected_p[i] <= corrected_p[j].
C3_MonotoneInInput ==
    op = "benjamini_hochberg" =>
        \A i, j \in 1..Len(ret) :
            args.p_values[i] <= args.p_values[j]
                => ret[i].corrected_p <= ret[j].corrected_p

\* C3 witness: distinct p-values, two of them with different corrected values,
\* and one whose corrected value the step-down from the largest lowered
C3_Witness ==
    /\ op = "benjamini_hochberg"
    /\ \A i, j \in 1..Len(ret) : i # j => args.p_values[i] # args.p_values[j]
    /\ \E i, j \in 1..Len(ret) : ret[i].corrected_p < ret[j].corrected_p
    /\ \E i \in 1..Len(ret) :
           LET r == Cardinality({k \in 1..Len(ret) :
                                   args.p_values[k] <= args.p_values[i]})
           IN  Round6(Min(FlDiv(FlMul(args.p_values[i], Len(ret)), r), One))
                   > ret[i].corrected_p

ValidMethods ==
    {S_bonferroni, S_holm, S_holm_bonferroni, S_benjamini_hochberg, S_bh, S_fdr}

\* C8: apply_correction with a method name outside the valid set (compared
\* case-insensitively) raises an error that names the valid set and returns
\* nothing; with a name in the set it returns one record per input p-value.
C8_UnknownMethodRaises ==
    op = "apply_correction" =>
        IF \E m \in ValidMethods :
               /\ Len(m) = Len(args.method)
               /\ \A k \in 1..Len(m) :
                      \/ args.method[k] = m[k]
                      \/ \E c \in 1..26 :
                             args.method[k] = UpperCase[c] /\ m[k] = LowerCase[c]
        THEN /\ err = NoError
             /\ Len(ret) = Len(args.p_values)
        ELSE /\ err.type = "ValueError"
             /\ {err.available[k] : k \in 1..Len(err.available)} = ValidMethods
             /\ ret = <<>>

\* C8 witness: an unknown name raised, with p-values to correct
C8_Witness ==
    /\ op = "apply_correction"
    /\ err.type = "ValueError"
    /\ Len(args.p_values) >= 1

SpecCorrections == Init /\ [][NextCorrections]_vars

(***************************************************************************)
(* Decimal fixed point, for sequential.py and frequentist.py.  Statistics, *)
(* boundaries, standard errors and effects are integers of millionths;     *)
(* probabilities (alpha, p-values, alpha spent) are integers of units of   *)
(* 10^-8, so that what the code rounds to 6 decimals is rounded here from  *)
(* two more digits.  Proportions, means and variances of integer data are  *)
(* exact fractions <<numerator, denominator>> in lowest terms.  The        *)
(* library functions of scipy.stats and numpy are tabulated to that        *)
(* resolution at the arguments the calls of the model reach; a table       *)
(* gives, for the argument a call computes, the value the library returns  *)
(* for the call's exact argument.                                          *)
(***************************************************************************)
\* the probability 1.0
ProbOne == 100000000

Infinity == 2147483647

Abs(x) == IF x < 0 THEN -x ELSE x

Sgn(x) == IF x < 0 THEN -1 ELSE IF x > 0 THEN 1 ELSE 0

RECURSIVE Gcd(_, _)
Gcd(a, b) == IF b = 0 THEN a ELSE Gcd(b, a % b)

\* the fraction n / d (d # 0) in lowest terms with a positive denominator
Rat(n, d) ==
    LET g == Gcd(Abs(n), Abs(d))
    IN  <<(Sgn(d) * n) \div g, Abs(d) \div g>>

RatAdd(a, b) == Rat(a[1] * b[2] + b[1] * a[2], a[2] * b[2])
RatSub(a, b) == Rat(a[1] * b[2] - b[1] * a[2], a[2] * b[2])
RatMul(a, b) == Rat(a[1] * b[1], a[2] * b[2])
RatDiv(a, b) == Rat(a[1] * b[2], a[2] * b[1])
RatAbs(a) == <<Abs(a[1]), a[2]>>
RatMin(a, b) == IF a[1] * b[2] <= b[1] * a[2] THEN a ELSE b

\* z / s to the nearest millionth for z >= 0 and s > 0 on the same scale:
\* long division in base 1000
DivScaled(z, s) ==
    LET q1 == z \div s
        r1 == z % s
        q2 == (r1 * 1000) \div s
        r2 == (r1 * 1000) % s
        q3 == (r2 * 1000) \div s
        r3 == (r2 * 1000) % s
        q  == q1 * 1000000 + q2 * 1000 + q3
    IN  IF 2 * r3 > s \/ (2 * r3 = s /\ q % 2 = 1) THEN q + 1 ELSE q

\* a * b for a, b >= 0 with b in millionths, on the scale of a: the product
\* on limbs of three decimal digits
MulScaled(a, b) ==
    LET a1 == a \div 1000
        a0 == a % 1000
        b1 == b \div 1000
        b0 == b % 1000
        s  == a1 * b0 + a0 * b1
        t  == (s % 1000) * 1000 + a0 * b0
        q  == a1 * b1 + (s \div 1000) + (t \div 1000000)
    IN  IF 2 * (t % 1000000) >= 1000000 THEN q + 1 ELSE q

\* a * b for two probabilities, in units of 10^-8: the product on limbs of
\* four decimal digits
MulProb(a, b) ==
    LET a1 == a \div 10000
        a0 == a % 10000
        b1 == b \div 10000
        b0 == b % 10000
        s  == a1 * b0 + a0 * b1
        t  == (s % 10000) * 10000 + a0 * b0
        q  == a1 * b1 + (s \div 10000) + (t \div ProbOne)
    IN  IF 2 * (t % ProbOne) >= ProbOne THEN q + 1 ELSE q

\* the float of a fraction, in millionths (also round(x, 6) of that float)
ToMicro(r) == Sgn(r[1]) * DivScaled(Abs(r[1]), r[2])

\* round(x, 4) of x in millionths, in millionths
Round4(x) == Sgn(x) * RoundHalfEven(Abs(x), 100) * 100

\* round(x, 6) of a probability in units of 10^-8, in millionths
Round6Prob(x) == RoundHalfEven(x, 100)

\* stats.norm.ppf(1 - (alpha / m) / 2), in millionths, for alpha in units of 10^-8
NormPpf(alpha, m) ==
    CASE alpha = 1000000 /\ m = 1 -> 2575829
      [] alpha = 1000000 /\ m = 2 -> 2807034
      [] alpha = 1000000 /\ m = 3 -> 2935199
      [] alpha = 1000000 /\ m = 4 -> 3023341
      [] alpha = 4550010 /\ m = 1 -> 2000002
      [] alpha = 5000000 /\ m = 1 -> 1959964
      [] alpha = 5000000 /\ m = 2 -> 2241403
      [] alpha = 5000000 /\ m = 3 -> 2393980
      [] alpha = 5000000 /\ m = 4 -> 2497705
      [] alpha = 7865000 /\ m = 1 -> 1758573
      [] alpha = 99999000 /\ m = 1 -> 13
      [] alpha = 99999000 /\ m = 2 -> 674498
      [] alpha = 99999000 /\ m = 3 -> 967428
      [] alpha = 99999000 /\ m = 4 -> 1150355

\* np.sqrt(k / n) for k / n in lowest terms, in millionths
Sqrt(k, n) ==
    CASE k = 0 /\ n = 1 -> 0
      [] k = 1 /\ n = 1 -> 1000000
      [] k = 1 /\ n = 2 -> 707107
      [] k = 1 /\ n = 3 -> 577350
      [] k = 1 /\ n = 4 -> 500000
      [] k = 1 /\ n = 5 -> 447214
      [] k = 1 /\ n = 6 -> 408248
      [] k = 1 /\ n = 8 -> 353553
      [] k = 1 /\ n = 9 -> 333333
      [] k = 1 /\ n = 16 -> 250000
      [] k = 1 /\ n = 45 -> 149071
      [] k = 1 /\ n = 64 -> 125000
      [] k = 1 /\ n = 96 -> 102062
      [] k = 1 /\ n = 400 -> 50000
      [] k = 1 /\ n = 576 -> 41667
      [] k = 2 /\ n = 1 -> 1414214
      [] k = 2 /\ n = 3 -> 816497
      [] k = 2 /\ n = 15 -> 365148
      [] k = 2 /\ n = 27 -> 272166
      [] k = 3 /\ n = 4 -> 866025
      [] k = 3 /\ n = 16 -> 433013
      [] k = 4 /\ n = 9 -> 666667
      [] k = 4 /\ n = 27 -> 384900
      [] k = 5 /\ n = 4 -> 1118034
      [] k = 5 /\ n = 54 -> 304290
      [] k = 5 /\ n = 96 -> 228218
      [] k = 43 /\ n = 216 -> 446177
      [] k = 49 /\ n = 144 -> 583333
      [] k = 121 /\ n = 576 -> 458333
      [] k = 10000 /\ n = 10001 -> 999950
      [] k = 10000 /\ n = 40001 -> 499994
      [] k = 9 /\ n = 50 -> 424264
      [] k = 9 /\ n = 100 -> 300000
      [] k = 33 /\ n = 100 -> 574456
      [] k = 49 /\ n = 100 -> 700000

\* np.log(1 + (np.e - 1) * k / n) for k / n in lowest terms, in units of 10^-8
LogSpend(k, n) ==
    CASE k = 1 /\ n = 1 -> 100000000
      [] k = 1 /\ n = 2 -> 62011451
      [] k = 1 /\ n = 3 -> 45283243
      [] k = 1 /\ n = 4 -> 35737402
      [] k = 2 /\ n = 3 -> 76338252
      [] k = 3 /\ n = 4 -> 82798894

\* stats.norm.cdf(x) for x >= 0 in millionths, in units of 10^-8
NormCdfNonNeg(x) ==
    CASE x = 0 -> 50000000
      [] x = 13 -> 50000500
      [] x = 15 -> 50000577
      [] x = 16 -> 50000612
      [] x = 18 -> 50000707
      [] x = 23 -> 50000866
      [] x = 26 -> 50001000
      [] x = 372678 -> 64530594
      [] x = 666666 -> 74750746
      [] x = 816496 -> 79289191
      [] x = 866026 -> 80676188
      [] x = 912871 -> 81934479
      [] x = 1095445 -> 86333916
      [] x = 1154700 -> 87589346
      [] x = 1154702 -> 87589346
      [] x = 1369308 -> 91454824
      [] x = 1414213 -> 92135040
      [] x = 1490711 -> 93198144
      [] x = 1732052 -> 95836774
      [] x = 1959964 -> 97500000
      [] x = 2000000 -> 97724987
      [] x = 2236066 -> 98732634
      [] x = 2263173 -> 98818744
      [] x = 2400455 -> 99181267
      [] x = 2449491 -> 99284706
      [] x = 2575829 -> 99500000
      [] x = 2771807 -> 99721270
      [] x = 2974313 -> 99853177
      [] x = 3154732 -> 99919678
      [] x = 3394759 -> 99965655
      [] x = 3642771 -> 99986514
      [] x = 3919928 -> 99995571
      [] x = 4461469 -> 99999593
      [] x = 5151658 -> 99999987

\* np.arcsin(np.sqrt(k / n)) for k / n in lowest terms, in millionths
ArcsinSqrt(k, n) ==
    CASE k = 0 /\ n = 1 -> 0
      [] k = 1 /\ n = 1 -> 1570796
      [] k = 1 /\ n = 2 -> 785398
      [] k = 1 /\ n = 3 -> 615480
      [] k = 2 /\ n = 3 -> 955317

\* stats.t.cdf(t, df) for t >= 0 and df in millionths, in units of 10^-8
StudentCdfNonNeg(t, df) ==
    CASE t = 0 /\ df = 1000000 -> 50000000
      [] t = 0 /\ df = 2000000 -> 50000000
      [] t = 447214 /\ df = 1470588 -> 64413860
      [] t = 1000000 /\ df = 1000000 -> 75000000
      [] t = 1414213 /\ df = 2000000 -> 85355339
      [] t = 3000000 /\ df = 1000000 -> 89758362

\* stats.t.ppf(1 - alpha / 2, df), in millionths, for alpha in units of 10^-8 and df in millionths
StudentPpf(alpha, df) ==
    CASE alpha = 4550010 /\ df = 1000000 -> 13967781
      [] alpha = 4550010 /\ df = 1470588 -> 6608736
      [] alpha = 4550010 /\ df = 2000000 -> 4526545
      [] alpha = 5000000 /\ df = 1000000 -> 12706205
      [] alpha = 5000000 /\ df = 1470588 -> 6188115
      [] alpha = 5000000 /\ df = 2000000 -> 4302653
      [] alpha = 7865000 /\ df = 1000000 -> 8053116
      [] alpha = 7865000 /\ df = 1470588 -> 4494887
      [] alpha = 7865000 /\ df = 2000000 -> 3351869

\* the p-value stats.chi2_contingency gives a statistic x (millionths) on one degree of freedom, in units of 10^-8
Chi2Sf(x) ==
    CASE x = 0 -> 100000000
      [] x = 17361 -> 89517288
      [] x = 17500 -> 89475684
      [] x = 52083 -> 81947698
      [] x = 93750 -> 75946287
      [] x = 109375 -> 74085681
      [] x = 140625 -> 70766047
      [] x = 177778 -> 67328998
      [] x = 187500 -> 66500554
      [] x = 312500 -> 57615012
      [] x = 364583 -> 54597172
      [] x = 444444 -> 50498508
      [] x = 500000 -> 47950012
      [] x = 562500 -> 45325470
      [] x = 750000 -> 38647623
      [] x = 888889 -> 34577859
      [] x = 1000000 -> 31731051
      [] x = 1470486 -> 22526901
      [] x = 1701389 -> 19210644
      [] x = 2666667 -> 10247043

NormCdf(x) == IF x >= 0 THEN NormCdfNonNeg(x) ELSE ProbOne - NormCdfNonNeg(-x)

StudentCdf(t, df) ==
    IF t >= 0 THEN StudentCdfNonNeg(t, df) ELSE ProbOne - StudentCdfNonNeg(-t, df)

(***************************************************************************)
(* sequential.py                                                           *)
(***************************************************************************)
\* largest number of planned looks
MaxLooks == 3

\* alpha: 0.01, 0.05, 0.99999
SeqAlphas == {1000000, 5000000, 99999000}

\* z_stat: 0, 0.5, 1.5, 1.95997, 2.0, -2.7718, 5.0
ZVals == {0, 500000, 1500000, 1959970, 2000000, -2771800, 5000000}

SpendingNames == {"obrien-fleming", "pocock", "OBrien-Fleming", "unknown", ""}

\* z_alpha2 * sqrt(info_fraction): the boundary growing with the look
obrien_fleming_boundary_times(alpha, n_looks, current_look) ==
    LET info_fraction == Rat(current_look, n_looks)
    IN  IF info_fraction[1] <= 0
        THEN Infinity
        ELSE MulScaled(NormPpf(alpha, 1), Sqrt(info_fraction[1], info_fraction[2]))

obrien_fleming_boundary(alpha, n_looks, current_look) ==
    LET info_fraction == Rat(current_look, n_looks)
    IN  IF info_fraction[1] <= 0
        THEN Infinity
        ELSE DivScaled(NormPpf(alpha, 1), Sqrt(info_fraction[1], info_fraction[2]))

pocock_boundary(alpha, n_looks, current_look) == NormPpf(alpha, n_looks)

alpha_spending_obrien_fleming(alpha, info_fraction) ==
    IF info_fraction[1] <= 0
    THEN 0
    ELSE 2 * (ProbOne
              - NormCdf(DivScaled(NormPpf(alpha, 1),
                                  Sqrt(info_fraction[1], info_fraction[2]))))

alpha_spending_pocock(alpha, info_fraction) ==
    IF info_fraction[1] <= 0
    THEN 0
    ELSE MulProb(alpha, LogSpend(info_fraction[1], info_fraction[2]))

boundary_fn(spending_function, alpha, n_looks, look) ==
    IF spending_function = "obrien-fleming"
    THEN obrien_fleming_boundary(alpha, n_looks, look)
    ELSE pocock_boundary(alpha, n_looks, look)

spending_fn(spending_function, alpha, info_fraction) ==
    IF spending_function = "obrien-fleming"
    THEN alpha_spending_obrien_fleming(alpha, info_fraction)
    ELSE alpha_spending_pocock(alpha, info_fraction)

\* the decision without the final-look branch
decide_no_final(z_stat, current_boundary, current_look, max_looks, alpha) ==
    IF Abs(z_stat) >= current_boundary THEN "stop_reject" ELSE "continue"

\* the standard critical value tried at every look, not only the final one
decide_standard_at_every_look(z_stat, current_boundary, current_look, max_looks, alpha) ==
    IF Abs(z_stat) >= current_boundary \/ Abs(z_stat) >= NormPpf(alpha, 1)
    THEN "stop_reject"
    ELSE IF current_look = max_looks THEN "stop_accept" ELSE "continue"

decide(z_stat, current_boundary, current_look, max_looks, alpha) ==
    IF Abs(z_stat) >= current_boundary
    THEN "stop_reject"
    ELSE IF current_look = max_looks
         THEN IF Abs(z_stat) >= NormPpf(alpha, 1)
              THEN "stop_reject"
              ELSE "stop_accept"
         ELSE "continue"

\* the spending function chosen by comparing the name with "pocock"
choose_by_pocock(spending_function) ==
    IF spending_function = "pocock" THEN "pocock" ELSE "obrien-fleming"

\* the branch of interim_analysis a name selects
choose(spending_function) ==
    IF spending_function = "obrien-fleming" THEN "obrien-fleming" ELSE "pocock"

\* boundaries[current_look - 1] is a Python list index: it raises IndexError
\* outside -len .. len - 1 and counts from the end when negative
interim_analysis(z_stat, current_look, max_looks, alpha, spending_function) ==
    LET boundaries ==
            [look \in 1..max_looks |->
                Round4(boundary_fn(choose(spending_function), alpha, max_looks, look))]
        n   == Len(boundaries)
        idx == current_look - 1
    IN  IF idx >= n \/ idx < -n
        THEN [ret |-> <<>>, err |-> [type |-> "IndexError"]]
        ELSE LET current_boundary ==
                     boundaries[IF idx >= 0 THEN idx + 1 ELSE n + idx + 1]
                 info_fraction == Rat(current_look, max_looks)
                 cumulative_alpha ==
                     spending_fn(choose(spending_function), alpha, info_fraction)
             IN  [ret |-> [current_look      |-> current_look,
                           max_looks         |-> max_looks,
                           spending_function |-> spending_function,
                           alpha_spent       |-> Round6Prob(cumulative_alpha),
                           boundary_value    |-> Round4(current_boundary),
                           z_statistic       |-> Round4(z_stat),
                           decision          |-> decide(z_stat, current_boundary,
                                                        current_look, max_looks, alpha),
                           cumulative_alpha  |-> Round6Prob(cumulative_alpha),
                           boundaries        |-> boundaries],
                  err |-> NoError]

InterimAnalysis ==
    /\ op = "none"
    /\ UNCHANGED env
    /\ \E z \in ZVals, cl \in -1..(MaxLooks + 1), ml \in -1..MaxLooks,
          a \in SeqAlphas, sf \in SpendingNames :
        /\ op' = "interim_analysis"
        /\ args' = [z_stat |-> z, current_look |-> cl, max_looks |-> ml,
                    alpha |-> a, spending_function |-> sf]
        /\ ret' = interim_analysis(z, cl, ml, a, sf).ret
        /\ err' = interim_analysis(z, cl, ml, a, sf).err

NextSequential ==
    \/ InterimAnalysis
    \/ Discard

(***************************************************************************)
(* Properties of the sequential monitor.                                   *)
(***************************************************************************)
Returned(name) == op = name /\ err = NoError

\* C4: interim_analysis returns stop_reject when |z_stat| >= the boundary of
\* the current look; otherwise, at current_look = max_looks, stop_reject if
\* |z_stat| >= the standard two-sided critical value for alpha and
\* stop_accept if not; otherwise continue.
C4_Decision ==
    Returned("interim_analysis") =>
        /\ (args.current_look \in 1..args.max_looks
               => ret.boundary_value = ret.boundaries[args.current_look])
        /\ ret.decision =
              IF Abs(args.z_stat) >= ret.boundary_value
              THEN "stop_reject"
              ELSE IF args.current_look = args.max_looks
                   THEN IF Abs(args.z_stat) >= NormPpf(args.alpha, 1)
                        THEN "stop_reject"
                        ELSE "stop_accept"
                   ELSE "continue"

\* C4 witness: a final look below its boundary that rejects on the standard
\* critical value
C4_Witness ==
    /\ Returned("interim_analysis")
    /\ args.current_look = args.max_looks
    /\ Abs(args.z_stat) < ret.boundary_value
    /\ ret.decision = "stop_reject"

\* C5: every SequentialResult returned by interim_analysis has
\* 1 <= current_look <= max_looks, whatever integers the caller passes.
C5_LookWithinPlan ==
    Returned("interim_analysis") =>
        /\ 1 <= ret.current_look
        /\ ret.current_look <= ret.max_looks

C7_UnknownNameIsPocock ==
    (op = "interim_analysis" /\ args.spending_function # "obrien-fleming") =>
        LET pocock == interim_analysis(args.z_stat, args.current_look,
                                       args.max_looks, args.alpha, "pocock")
        IN  /\ err = pocock.err
            /\ err.type \in {"none", "IndexError"}
            /\ err.type = "IndexError" <=>
                  \/ args.current_look > Max(args.max_looks, 0)
                  \/ args.current_look <= -Max(args.max_looks, 0)
            /\ err = NoError =>
                  /\ ret.boundaries = pocock.ret.boundaries
                  /\ \A k \in 1..args.max_looks :
                        ret.boundaries[k] =
                            Round4(pocock_boundary(args.alpha, args.max_looks, k))
                  /\ ret.alpha_spent = pocock.ret.alpha_spent
                  /\ ret.decision = pocock.ret.decision
                  /\ ret.spending_function = args.spending_function

\* C7 witness: a name that is neither key returned a result, where the
\* O'Brien-Fleming boundaries would have been different
C7_Witness ==
    /\ Returned("interim_analysis")
    /\ args.spending_function \notin {"obrien-fleming", "pocock"}
    /\ args.max_looks >= 2
    /\ args.current_look \in 1..args.max_looks
    /\ ret.boundaries #
          interim_analysis(args.z_stat, args.current_look, args.max_looks,
                           args.alpha, "obrien-fleming").ret.boundaries

SpecSequential == Init /\ [][NextSequential]_vars

(***************************************************************************)
(* frequentist.py                                                          *)
(***************************************************************************)
\* largest number of users in an arm of a conversion test
MaxTotal == 2
\* largest observation of a continuous metric
MaxVal == 1
\* largest cell of a contingency table
MaxCount == 2

\* alpha: 0.05, 0.0455001, 0.07865
FreqAlphas == {5000000, 4550010, 7865000}

Alternatives == {"two-sided", "greater", "less", "Two-Sided"}

\* control_values, treatment_values: samples of two observations
Samples == {<<a, b>> : a \in 0..MaxVal, b \in 0..MaxVal}

\* observed: 2 x 2 tables of counts with at least one observation
Tables ==
    {<<<<a, b>>, <<c, d>>>> : a \in 0..MaxCount, b \in 0..MaxCount,
                             c \in 0..MaxCount, d \in 0..MaxCount} \ {<<<<0, 0>>, <<0, 0>>>>}

ZeroDivisionError == [type |-> "ZeroDivisionError"]

\* p_value < 1 - alpha: alpha taken for the confidence level
is_significant_confidence(p_value, alpha) == p_value < ProbOne - alpha

\* bool(p_value < alpha), on the p-value before it is rounded
is_significant(p_value, alpha) == p_value < alpha

\* diff / se with no guard: the division raises when se is zero
statistic_unguarded(diff, se) ==
    IF se = 0
    THEN [val |-> 0, err |-> ZeroDivisionError]
    ELSE [val |-> Sgn(diff[1]) * DivScaled(Abs(ToMicro(diff)), se), err |-> NoError]

\* diff / se if se > 0 else 0, for a fraction diff and se in millionths: the
\* value, and the exception the expression raises (none)
statistic(diff, se) ==
    IF se > 0
    THEN [val |-> Sgn(diff[1]) * DivScaled(Abs(ToMicro(diff)), se), err |-> NoError]
    ELSE [val |-> 0, err |-> NoError]

\* the p-value by alternative, from the cumulative distribution at the
\* absolute value of the statistic (cdf_abs) and at the statistic (cdf_stat)
p_value_of(alternative, cdf_abs, cdf_stat) ==
    IF alternative = "two-sided"
    THEN 2 * (ProbOne - cdf_abs)
    ELSE IF alternative = "greater"
         THEN ProbOne - cdf_stat
         ELSE cdf_stat

\* np.sqrt of a fraction
SqrtRat(r) == Sqrt(r[1], r[2])

\* p * (1 - p) / n
BinomVar(p, n) == RatDiv(RatMul(p, RatSub(<<1, 1>>, p)), <<n, 1>>)

\* se of two_proportion_z_test (totals > 0)
z_test_se(control_conversions, control_total, treatment_conversions, treatment_total) ==
    LET p_pool == Rat(control_conversions + treatment_conversions,
                      control_total + treatment_total)
    IN  SqrtRat(RatMul(RatMul(p_pool, RatSub(<<1, 1>>, p_pool)),
                       RatAdd(Rat(1, control_total), Rat(1, treatment_total))))

\* z of two_proportion_z_test (totals > 0)
z_test_z(control_conversions, control_total, treatment_conversions, treatment_total) ==
    LET p_c == Rat(control_conversions, control_total)
        p_t == Rat(treatment_conversions, treatment_total)
    IN  statistic(RatSub(p_t, p_c),
                  z_test_se(control_conversions, control_total,
                            treatment_conversions, treatment_total))

\* p_value of two_proportion_z_test before rounding (totals > 0)
z_test_p_value(control_conversions, control_total, treatment_conversions, treatment_total, alternative) ==
    LET z == z_test_z(control_conversions, control_total,
                      treatment_conversions, treatment_total).val
    IN  p_value_of(alternative, NormCdf(Abs(z)), NormCdf(z))

two_proportion_z_test(control_conversions, control_total, treatment_conversions, treatment_total, alpha, alternative) ==
    IF control_total = 0 \/ treatment_total = 0
    THEN [ret |-> <<>>, err |-> ZeroDivisionError]
    ELSE
    LET p_c == Rat(control_conversions, control_total)
        p_t == Rat(treatment_conversions, treatment_total)
        z   == z_test_z(control_conversions, control_total,
                        treatment_conversions, treatment_total)
        p_value == z_test_p_value(control_conversions, control_total,
                                  treatment_conversions, treatment_total, alternative)
        se_diff == SqrtRat(RatAdd(BinomVar(p_c, control_total),
                                  BinomVar(p_t, treatment_total)))
        z_crit  == NormPpf(alpha, 1)
        absolute_effect == RatSub(p_t, p_c)
        ci_lower == ToMicro(absolute_effect) - MulScaled(z_crit, se_diff)
        ci_upper == ToMicro(absolute_effect) + MulScaled(z_crit, se_diff)
        h == 2 * (ArcsinSqrt(p_t[1], p_t[2]) - ArcsinSqrt(p_c[1], p_c[2]))
        relative_effect == IF p_c[1] > 0 THEN RatDiv(absolute_effect, p_c) ELSE <<0, 1>>
    IN  IF z.err # NoError
        THEN [ret |-> <<>>, err |-> z.err]
        ELSE [ret |-> [test_name        |-> "Two-Proportion Z-Test",
                       statistic        |-> Round4(z.val),
                       p_value          |-> Round6Prob(p_value),
                       significant      |-> is_significant(p_value, alpha),
                       confidence_level |-> ProbOne - alpha,
                       control_mean     |-> ToMicro(p_c),
                       treatment_mean   |-> ToMicro(p_t),
                       absolute_effect  |-> ToMicro(absolute_effect),
                       relative_effect  |-> Round4(ToMicro(relative_effect)),
                       ci_lower         |-> ci_lower,
                       ci_upper         |-> ci_upper,
                       effect_size      |-> Round4(h)],
              err |-> NoError]

RECURSIVE SumSeq(_)
SumSeq(s) == IF s = <<>> THEN 0 ELSE Head(s) + SumSeq(Tail(s))

\* values.mean()
Mean(values) == Rat(SumSeq(values), Len(values))

RECURSIVE SumSqDev(_, _)
\* the sum of (x - m)^2 over the values
SumSqDev(values, m) ==
    IF values = <<>>
    THEN <<0, 1>>
    ELSE LET dev == RatSub(<<Head(values), 1>>, m)
         IN  RatAdd(RatMul(dev, dev), SumSqDev(Tail(values), m))

\* values.var(ddof=1), for two values or more
Var(values) == RatDiv(SumSqDev(values, Mean(values)), <<Len(values) - 1, 1>>)

\* se of welch_t_test
welch_se(control_values, treatment_values) ==
    SqrtRat(RatAdd(RatDiv(Var(control_values), <<Len(control_values), 1>>),
                   RatDiv(Var(treatment_values), <<Len(treatment_values), 1>>)))

\* t_stat of welch_t_test
welch_t(control_values, treatment_values) ==
    statistic(RatSub(Mean(treatment_values), Mean(control_values)),
              welch_se(control_values, treatment_values))

\* Welch-Satterthwaite degrees of freedom, in millionths
welch_df(control_values, treatment_values) ==
    LET n_c == Len(control_values)
        n_t == Len(treatment_values)
        s_c == RatDiv(Var(control_values), <<n_c, 1>>)
        s_t == RatDiv(Var(treatment_values), <<n_t, 1>>)
        num == RatMul(RatAdd(s_c, s_t), RatAdd(s_c, s_t))
        denom == RatAdd(RatDiv(RatMul(s_c, s_c), <<n_c - 1, 1>>),
                        RatDiv(RatMul(s_t, s_t), <<n_t - 1, 1>>))
    IN  ToMicro(IF denom[1] > 0 THEN RatDiv(num, denom) ELSE <<1, 1>>)

\* p_value of welch_t_test before rounding
welch_p_value(control_values, treatment_values, alternative) ==
    LET t_stat == welch_t(control_values, treatment_values).val
        df == welch_df(control_values, treatment_values)
    IN  p_value_of(alternative, StudentCdf(Abs(t_stat), df), StudentCdf(t_stat, df))

welch_t_test(control_values, treatment_values, alpha, alternative) ==
    LET n_c == Len(control_values)
        n_t == Len(treatment_values)
        mean_c == Mean(control_values)
        mean_t == Mean(treatment_values)
        var_c == Var(control_values)
        var_t == Var(treatment_values)
        se == welch_se(control_values, treatment_values)
        t_stat == welch_t(control_values, treatment_values)
        df == welch_df(control_values, treatment_values)
        p_value == welch_p_value(control_values, treatment_values, alternative)
        t_crit == StudentPpf(alpha, df)
        absolute_effect == RatSub(mean_t, mean_c)
        ci_lower == ToMicro(absolute_effect) - MulScaled(t_crit, se)
        ci_upper == ToMicro(absolute_effect) + MulScaled(t_crit, se)
        pooled_std ==
            SqrtRat(RatDiv(RatAdd(RatMul(<<n_c - 1, 1>>, var_c),
                                  RatMul(<<n_t - 1, 1>>, var_t)),
                           <<n_c + n_t - 2, 1>>))
        d == statistic(absolute_effect, pooled_std)
        relative_effect ==
            IF mean_c[1] # 0 THEN RatDiv(absolute_effect, mean_c) ELSE <<0, 1>>
    IN  IF t_stat.err # NoError
        THEN [ret |-> <<>>, err |-> t_stat.err]
        ELSE [ret |-> [test_name        |-> "Welch's T-Test",
                       statistic        |-> Round4(t_stat.val),
                       p_value          |-> Round6Prob(p_value),
                       significant      |-> is_significant(p_value, alpha),
                       confidence_level |-> ProbOne - alpha,
                       control_mean     |-> Round4(ToMicro(mean_c)),
                       treatment_mean   |-> Round4(ToMicro(mean_t)),
                       absolute_effect  |-> Round4(ToMicro(absolute_effect)),
                       relative_effect  |-> Round4(ToMicro(relative_effect)),
                       ci_lower         |-> Round4(ci_lower),
                       ci_upper         |-> Round4(ci_upper),
                       effect_size      |-> Round4(d.val)],
              err |-> NoError]

\* stats.chi2_contingency(observed) on a 2 x 2 table: ValueError when an
\* expected frequency is zero; otherwise the statistic, a fraction, with
\* Yates' continuity correction (one degree of freedom), and its p-value
chi2_contingency(observed) ==
    LET row(i) == observed[i][1] + observed[i][2]
        col(j) == observed[1][j] + observed[2][j]
        total  == row(1) + row(2)
        expected(i, j) == Rat(row(i) * col(j), total)
        term(i, j) ==
            LET diff == RatAbs(RatSub(expected(i, j), <<observed[i][j], 1>>))
                adj  == RatSub(diff, RatMin(<<1, 2>>, diff))
            IN  RatDiv(RatMul(adj, adj), expected(i, j))
        chi2 == RatAdd(RatAdd(term(1, 1), term(1, 2)), RatAdd(term(2, 1), term(2, 2)))
    IN  IF \E i \in 1..2, j \in 1..2 : row(i) * col(j) = 0
        THEN [err |-> [type |-> "ValueError"]]
        ELSE [err |-> NoError, chi2 |-> chi2, p_value |-> Chi2Sf(ToMicro(chi2))]

chi_square_test(observed, alpha) ==
    LET test  == chi2_contingency(observed)
        total == observed[1][1] + observed[1][2] + observed[2][1] + observed[2][2]
        row_totals == <<observed[1][1] + observed[1][2], observed[2][1] + observed[2][2]>>
    IN  IF test.err # NoError
        THEN [ret |-> <<>>, err |-> test.err]
        ELSE [ret |-> [test_name        |-> "Chi-Square Test",
                       statistic        |-> Round4(ToMicro(test.chi2)),
                       p_value          |-> Round6Prob(test.p_value),
                       significant      |-> is_significant(test.p_value, alpha),
                       confidence_level |-> ProbOne - alpha,
                       control_mean     |-> ToMicro(Rat(observed[1][1], row_totals[1])),
                       treatment_mean   |-> ToMicro(Rat(observed[2][1], row_totals[2])),
                       absolute_effect  |-> 0,
                       relative_effect  |-> 0,
                       ci_lower         |-> 0,
                       ci_upper         |-> 0,
                       effect_size      |->
                           Round4(SqrtRat(RatDiv(test.chi2, <<total, 1>>)))],
              err |-> NoError]

TwoProportionZTest ==
    /\ op = "none"
    /\ UNCHANGED env
    /\ \E n_c \in 0..MaxTotal, n_t \in 0..MaxTotal, a \in FreqAlphas,
          alt \in Alternatives :
        \E x_c \in 0..n_c, x_t \in 0..n_t :
            /\ op' = "two_proportion_z_test"
            /\ args' = [control_conversions |-> x_c, control_total |-> n_c,
                        treatment_conversions |-> x_t, treatment_total |-> n_t,
                        alpha |-> a, alternative |-> alt]
            /\ ret' = two_proportion_z_test(x_c, n_c, x_t, n_t, a, alt).ret
            /\ err' = two_proportion_z_test(x_c, n_c, x_t, n_t, a, alt).err

WelchTTest ==
    /\ op = "none"
    /\ UNCHANGED env
    /\ \E c \in Samples, t \in Samples, a \in FreqAlphas, alt \in Alternatives :
        /\ op' = "welch_t_test"
        /\ args' = [control_values |-> c, treatment_values |-> t,
                    alpha |-> a, alternative |-> alt]
        /\ ret' = welch_t_test(c, t, a, alt).ret
        /\ err' = welch_t_test(c, t, a, alt).err

ChiSquareTest ==
    /\ op = "none"
    /\ UNCHANGED env
    /\ \E o \in Tables, a \in FreqAlphas :
        /\ op' = "chi_square_test"
        /\ args' = [observed |-> o, alpha |-> a]
        /\ ret' = chi_square_test(o, a).ret
        /\ err' = chi_square_test(o, a).err

NextFrequentist ==
    \/ TwoProportionZTest
    \/ WelchTTest
    \/ ChiSquareTest
    \/ Discard

(***************************************************************************)
(* Properties of the frequentist tests.                                    *)
(***************************************************************************)
FrequentistOps == {"two_proportion_z_test", "welch_t_test", "chi_square_test"}

\* the p-value the test of the last call computed, before rounding
UnroundedPValue ==
    CASE op = "two_proportion_z_test" ->
            z_test_p_value(args.control_conversions, args.control_total,
                           args.treatment_conversions, args.treatment_total,
                           args.alternative)
      [] op = "welch_t_test" ->
            welch_p_value(args.control_values, args.treatment_values, args.alternative)
      [] op = "chi_square_test" -> chi2_contingency(args.observed).p_value

\* C9 as claimed: in every FrequentistResult returned by the three tests,
\* significant is true exactly when the p_value reported in the same record
\* (rounded to 6 decimals) is < alpha.
C9_SignificantIffReportedBelowAlpha ==
    (op \in FrequentistOps /\ err = NoError) =>
        (ret.significant <=> ret.p_value * 100 < args.alpha)

\* C9 amended: significant is true exactly when the p-value the test
\* computed, before it is rounded to 6 decimals for the record, is < alpha;
\* the reported p_value is that value (a number) rounded, so significant
\* implies p_value <= round(alpha, 6) and not significant implies
\* p_value >= round(alpha, 6).
C9_SignificantIffUnroundedBelowAlpha ==
    (op \in FrequentistOps /\ err = NoError) =>
        /\ ret.significant <=> UnroundedPValue < args.alpha
        /\ ret.p_value = Round6Prob(UnroundedPValue)
        /\ ret.significant => ret.p_value <= Round6Prob(args.alpha)
        /\ ~ret.significant => ret.p_value >= Round6Prob(args.alpha)

\* C9 witness: a record that is not significant although the p_value it
\* reports is below alpha
C9_Witness ==
    /\ op \in FrequentistOps
    /\ err = NoError
    /\ ~ret.significant
    /\ ret.p_value * 100 < args.alpha
    /\ UnroundedPValue >= args.alpha

\* the pooled standard error of the last two_proportion_z_test call is zero:
\* no conversions in either arm, or both arms fully converted
ZeroPooledSe ==
    /\ op = "two_proportion_z_test"
    /\ args.control_total > 0
    /\ args.treatment_total > 0
    /\ \/ args.control_conversions + args.treatment_conversions = 0
       \/ args.control_conversions + args.treatment_conversions
             = args.control_total + args.treatment_total

\* C10: two_proportion_z_test with a zero pooled standard error (totals > 0)
\* returns a result with statistic 0 instead of raising, for every
\* alternative.
C10_ZeroSeStatisticZero ==
    ZeroPooledSe =>
        /\ z_test_se(args.control_conversions, args.control_total,
                     args.treatment_conversions, args.treatment_total) = 0
        /\ err = NoError
        /\ ret.statistic = 0

\* C10 witness: both arms fully converted under a one-sided alternative
\* returned a result
C10_Witness ==
    /\ ZeroPooledSe
    /\ args.control_conversions = args.control_total
    /\ args.alternative = "greater"
    /\ err = NoError
    /\ ret.statistic = 0
    /\ ret.p_value = 500000

SpecFrequentist == Init /\ [][NextFrequentist]_vars

(***************************************************************************)
(* Bayesian analysis: src/src/analytics/ab_testing/bayesian.py             *)
(*                                                                         *)
(* Posterior samples and ROPE bounds are in thousandths, the 4-decimal     *)
(* fields of a BayesianResult in ten-thousandths, its expected losses (6   *)
(* decimals) in millionths, relative lifts in units of 1e-5.  A generator  *)
(* is its stream and its position in it; a word of the stream selects a    *)
(* quartile of the distribution sampled (inverse-CDF sampling).            *)
(***************************************************************************)

\* the largest n_samples of a call
MaxSamples == 2

\* float('nan')
NaN == -Infinity

ValueError == [type |-> "ValueError"]

\* a generator made from the process-global stream instead of the seed's
default_rng_shared(seed) == [stream |-> global_rng, pos |-> 0]

\* np.random.default_rng(seed): a new generator at the start of the stream
\* of the seed
default_rng(seed) == [stream |-> pcg, pos |-> 0]

\* the next n words of a generator, and the generator after them
Draw(rng, n) ==
    [out |-> [i \in 1..n |-> rng.stream[((rng.pos + i - 1) % Len(rng.stream)) + 1]],
     rng |-> [rng EXCEPT !.pos = (@ + n) % Len(rng.stream)]]

\* the quartiles of Beta(a, b), in thousandths
BetaPpf(a, b, level) ==
    CASE a = 1 /\ b = 1 -> <<250, 500, 750>>[level]
      [] a = 1 /\ b = 2 -> <<134, 293, 500>>[level]
      [] a = 2 /\ b = 1 -> <<500, 707, 866>>[level]
      [] a = 2 /\ b = 2 -> <<326, 500, 674>>[level]

\* the quartiles of the standard normal distribution, in millionths
StdNormalPpf(level) == <<-674490, 0, 674490>>[level]

\* float subtraction
fsub(a, b) == IF a = NaN \/ b = NaN THEN NaN ELSE a - b

\* a > b on floats: False when either is nan
fgt(a, b) == a # NaN /\ b # NaN /\ a > b

\* np.maximum(x, 0)
fmax0(x) == IF x = NaN THEN NaN ELSE Max(x, 0)

\* some element is nan
HasNaN(values) == \E i \in 1..Len(values) : values[i] = NaN

\* the share of count in n, in ten-thousandths, rounded as round(x, 4)
Share(count, n) == RoundHalfEven(count * 10000, n)

\* np.mean of thousandths, rounded to 6 decimals (millionths)
MeanMicro(values) ==
    IF HasNaN(values) THEN NaN
    ELSE RoundHalfEven(SumSeq(values) * 1000, Len(values))

\* np.percentile(values, 100 * q), linear interpolation between the order
\* statistics around position (n - 1) * q; q is a fraction <<num, den>>
Percentile(values, q) ==
    IF HasNaN(values) THEN NaN
    ELSE LET sorted == SortSeq(values, LAMBDA x, y : x < y)
             h == RatMul(<<Len(values) - 1, 1>>, q)
             j == h[1] \div h[2]
             g == Rat(h[1] % h[2], h[2])
         IN  IF g[1] = 0
             THEN sorted[j + 1]
             ELSE sorted[j + 1]
                  + RoundHalfEven((sorted[j + 2] - sorted[j + 1]) * g[1], g[2])

\* tail = (1 - credible_interval) / 2, credible_interval in thousandths
TailOf(credible_interval) == Rat(1000 - credible_interval, 2000)

\* 1 - tail
UpperTailOf(credible_interval) == Rat(1000 + credible_interval, 2000)

\* diff / c in units of 1e-5; nan for a result that is not finite
LiftOf(diff, c) ==
    IF diff = NaN \/ c = NaN \/ c = 0 THEN NaN
    ELSE RoundHalfEven(diff * 100000, c)

\* np.mean of lifts (units of 1e-5), rounded to 4 decimals
MeanLift(lift_samples) == RoundHalfEven(SumSeq(lift_samples), 10 * Len(lift_samples))

\* the number of samples for which t > c
CountBetter(samples_c, samples_t) ==
    Cardinality({i \in 1..Len(samples_c) : fgt(samples_t[i], samples_c[i])})

\* the number of difference samples in [rope_lower, rope_upper]
CountIn(diff_samples, rope_lower, rope_upper) ==
    Cardinality({i \in 1..Len(diff_samples) :
        /\ diff_samples[i] # NaN
        /\ diff_samples[i] >= rope_lower
        /\ diff_samples[i] <= rope_upper})

\* the number of difference samples below rope_lower
CountBelow(diff_samples, rope_lower) ==
    Cardinality({i \in 1..Len(diff_samples) :
        diff_samples[i] # NaN /\ diff_samples[i] < rope_lower})

\* the number of difference samples above rope_upper
CountAbove(diff_samples, rope_upper) ==
    Cardinality({i \in 1..Len(diff_samples) : fgt(diff_samples[i], rope_upper)})

\* count / n > 0.95
Exceeds95(count, n) == count * 100 > 95 * n

\* a decision that takes the samples below the ROPE for an improvement
rope_decision_below_rejects(n_above, n_in, n) ==
    IF Exceeds95(n - n_in, n) THEN "reject"
    ELSE IF Exceeds95(n_in, n) THEN "accept"
    ELSE "undecided"

\* the if / elif / else on prob_above_rope and prob_in_rope
rope_decision(n_above, n_in, n) ==
    IF Exceeds95(n_above, n) THEN "reject"
    ELSE IF Exceeds95(n_in, n) THEN "accept"
    ELSE "undecided"

\* loss_treatment / loss_control if loss_control > 0 else float('inf'),
\* rounded to 4 decimals; the losses are sums over the same n samples
risk_ratio(loss_treatment, loss_control) ==
    IF fgt(loss_control, 0)
    THEN RoundHalfEven(loss_treatment * 10000, loss_control)
    ELSE Infinity

\* the sum of the positive parts of a - b; nan when a sample is nan
SumLoss(a, b) ==
    LET parts == [i \in 1..Len(a) |-> fmax0(fsub(a[i], b[i]))]
    IN  IF HasNaN(parts) THEN NaN ELSE SumSeq(parts)

\* np.mean(np.maximum(a - b, 0)), rounded to 6 decimals
MeanLoss(a, b) ==
    MeanMicro([i \in 1..Len(a) |-> fmax0(fsub(a[i], b[i]))])

\* the fields both procedures compute alike from the posterior samples
CommonFields(samples_c, samples_t, rope_lower, rope_upper) ==
    LET n == Len(samples_c)
        diff_samples == [i \in 1..n |-> fsub(samples_t[i], samples_c[i])]
        n_in == CountIn(diff_samples, rope_lower, rope_upper)
        n_below == CountBelow(diff_samples, rope_lower)
        n_above == CountAbove(diff_samples, rope_upper)
    IN  [prob_treatment_better |-> Share(CountBetter(samples_c, samples_t), n),
         expected_loss_control |-> MeanLoss(samples_t, samples_c),
         expected_loss_treatment |-> MeanLoss(samples_c, samples_t),
         risk_ratio |-> risk_ratio(SumLoss(samples_c, samples_t), SumLoss(samples_t, samples_c)),
         rope_decision |-> rope_decision(n_above, n_in, n),
         rope_prob_in |-> Share(n_in, n),
         rope_prob_below |-> Share(n_below, n),
         rope_prob_above |-> Share(n_above, n)]

\* a 4-decimal field from a value in units of 1e-5
Round4Lift(x) == IF x = NaN THEN NaN ELSE RoundHalfEven(x, 10)

\* rng.beta(a, b, n): inverse-CDF samples; a <= 0 or b <= 0 raises
rng_beta(rng, a, b, n) ==
    IF a <= 0 \/ b <= 0
    THEN [out |-> <<>>, rng |-> rng, err |-> ValueError]
    ELSE LET d == Draw(rng, n)
         IN  [out |-> [i \in 1..n |-> BetaPpf(a, b, d.out[i])], rng |-> d.rng, err |-> NoError]

\* samples_c and samples_t of beta_binomial, or the error rng.beta raises
beta_samples(control_conversions, control_total, treatment_conversions, treatment_total, prior_alpha, prior_beta, n_samples) ==
    LET alpha_c == prior_alpha + control_conversions
        beta_c == prior_beta + control_total - control_conversions
        alpha_t == prior_alpha + treatment_conversions
        beta_t == prior_beta + treatment_total - treatment_conversions
        rng == default_rng(42)
        draw_c == rng_beta(rng, alpha_c, beta_c, n_samples)
        draw_t == rng_beta(draw_c.rng, alpha_t, beta_t, n_samples)
    IN  IF draw_c.err # NoError THEN [c |-> <<>>, t |-> <<>>, err |-> draw_c.err]
        ELSE [c |-> draw_c.out, t |-> draw_t.out, err |-> draw_t.err]

\* the record beta_binomial builds from its samples
beta_binomial_result(samples_c, samples_t, credible_interval, rope_lower, rope_upper) ==
    LET lift_samples == [i \in 1..Len(samples_c) |-> LiftOf(samples_t[i] - samples_c[i], samples_c[i])]
        fields == CommonFields(samples_c, samples_t, rope_lower, rope_upper)
        hdi == [expected_lift |-> MeanLift(lift_samples),
                hdi_lower |-> Round4Lift(Percentile(lift_samples, TailOf(credible_interval))),
                hdi_upper |-> Round4Lift(Percentile(lift_samples, UpperTailOf(credible_interval))),
                posterior_samples |-> lift_samples]
    IN  fields @@ hdi

beta_binomial(control_conversions, control_total, treatment_conversions, treatment_total, prior_alpha, prior_beta, n_samples, credible_interval, rope_lower, rope_upper) ==
    LET samples == beta_samples(control_conversions, control_total, treatment_conversions, treatment_total, prior_alpha, prior_beta, n_samples)
    IN  IF samples.err # NoError THEN [ret |-> <<>>, err |-> samples.err]
        ELSE [ret |-> beta_binomial_result(samples.c, samples.t, credible_interval, rope_lower, rope_upper), err |-> NoError]

\* a 4-decimal field from a value in thousandths
Round4Milli(x) == IF x = NaN THEN NaN ELSE x * 10

\* float(np.percentile(diff_samples, q * 100)), rounded to 4 decimals
hdi_of(diff_samples, lift_samples, q) ==
    IF HasNaN(diff_samples) THEN NaN
    ELSE Percentile([i \in 1..Len(diff_samples) |-> Round4Milli(diff_samples[i])], q)

_compute_bayesian_result(samples_c, samples_t, credible_interval, rope_lower, rope_upper) ==
    LET n == Len(samples_c)
        IsFinite(x) == x # NaN
        diff_samples == [i \in 1..n |-> fsub(samples_t[i], samples_c[i])]
        all_lift == [i \in 1..n |-> LiftOf(diff_samples[i], IF samples_c[i] = NaN THEN NaN ELSE Abs(samples_c[i]))]
        lift_samples == SelectSeq(all_lift, IsFinite)
        fields == CommonFields(samples_c, samples_t, rope_lower, rope_upper)
        hdi == [expected_lift |-> IF Len(lift_samples) > 0 THEN MeanLift(lift_samples) ELSE 0,
                hdi_lower |-> hdi_of(diff_samples, lift_samples, TailOf(credible_interval)),
                hdi_upper |-> hdi_of(diff_samples, lift_samples, UpperTailOf(credible_interval))]
    IN  fields @@ hdi

\* the posterior mean and standard deviation of one arm, in millionths;
\* nan when the sample variance is zero (n / var is inf, post_var 0 and
\* post_mean 0 * inf) or undefined (fewer than two values)
Posterior(values, prior_mu, prior_sigma) ==
    IF Len(values) < 2 THEN [mean |-> NaN, sd |-> NaN]
    ELSE LET n == Len(values)
             mean == Mean(values)
             var == Var(values)
         IN  IF var[1] = 0 THEN [mean |-> NaN, sd |-> 0]
             ELSE LET prior_prec == RatDiv(<<1, 1>>, <<prior_sigma * prior_sigma, 1>>)
                      post_prec == RatAdd(prior_prec, RatDiv(<<n, 1>>, var))
                      post_var == RatDiv(<<1, 1>>, post_prec)
                      post_mean == RatMul(post_var, RatAdd(RatMul(prior_prec, <<prior_mu, 1>>), RatDiv(RatMul(<<n, 1>>, mean), var)))
                  IN  [mean |-> ToMicro(post_mean), sd |-> SqrtRat(post_var)]

\* rng.normal(loc, scale, n): loc + scale * z, in thousandths
rng_normal(rng, loc, scale, n) ==
    LET d == Draw(rng, n)
        Sample(level) ==
            IF loc = NaN \/ scale = NaN THEN NaN
            ELSE LET z == StdNormalPpf(level)
                 IN  RoundHalfEven(loc + Sgn(z) * MulScaled(scale, Abs(z)), 1000)
    IN  [out |-> [i \in 1..n |-> Sample(d.out[i])], rng |-> d.rng]

\* samples_c and samples_t of the conjugate analytic solution
normal_samples(control_values, treatment_values, prior_mu, prior_sigma, n_samples) ==
    LET post_c == Posterior(control_values, prior_mu, prior_sigma)
        post_t == Posterior(treatment_values, prior_mu, prior_sigma)
        rng == default_rng(42)
        draw_c == rng_normal(rng, post_c.mean, post_c.sd, n_samples)
        draw_t == rng_normal(draw_c.rng, post_t.mean, post_t.sd, n_samples)
    IN  [c |-> draw_c.out, t |-> draw_t.out, err |-> NoError]

\* the conjugate analytic solution (use_mcmc False)
normal_normal(control_values, treatment_values, prior_mu, prior_sigma, n_samples, credible_interval, rope_lower, rope_upper) ==
    LET samples == normal_samples(control_values, treatment_values, prior_mu, prior_sigma, n_samples)
    IN  [ret |-> _compute_bayesian_result(samples.c, samples.t, credible_interval, rope_lower, rope_upper),
         err |-> NoError]

BayesOps == {"beta_binomial", "normal_normal"}

\* <<conversions, total>> of an arm
Arms == {<<0, 0>>, <<0, 1>>, <<1, 1>>}

PriorAlphas == {0, 1}

\* <<rope_lower, rope_upper>>: 0.005 around zero, the same inverted, and
\* one unit around zero
Ropes == {<<-5, 5>>, <<5, -5>>, <<-1000, 1000>>}

CredibleIntervals == {950}

\* revenue samples: spread, spread around zero, constant, larger
NormalSamples == {<<0, 1>>, <<-1, 1>>, <<1, 1>>, <<2, 4>>}

\* the states other code leaves the process-global generator in
GlobalStreams == {[i \in 1..3 |-> 1], [i \in 1..3 |-> 3]}

\* the calls whose result a caller keeps for a later comparison
Watched(o, a) ==
    /\ a.n_samples = 1
    /\ a.rope_lower = -5
    /\ a.rope_upper = 5
    /\ o = "beta_binomial" =>
          /\ a.prior_alpha = 1
          /\ <<a.control_conversions, a.control_total>> = <<0, 1>>
          /\ <<a.treatment_conversions, a.treatment_total>> = <<1, 1>>
    /\ o = "normal_normal" =>
          /\ a.control_values = <<0, 1>>
          /\ a.treatment_values = <<2, 4>>

\* kept, after a call o(a): a call other than the kept one lies between
Between(o, a) ==
    IF kept # NoCall /\ (kept.op # o \/ kept.args # a)
    THEN [kept EXCEPT !.between = TRUE]
    ELSE kept

\* no call made yet; seed 42 yields some stream, the same at every call
InitBayesian ==
    /\ Idle
    /\ NoThreads
    /\ pcg \in Streams
    /\ global_rng \in GlobalStreams

BetaBinomial ==
    /\ op = "none"
    /\ UNCHANGED <<pcg, global_rng, threads, heap>>
    /\ \E control \in Arms, treatment \in Arms, prior_alpha \in PriorAlphas, n_samples \in 1..MaxSamples, credible_interval \in CredibleIntervals, rope \in Ropes :
        LET a == [control_conversions |-> control[1], control_total |-> control[2],
                  treatment_conversions |-> treatment[1], treatment_total |-> treatment[2],
                  prior_alpha |-> prior_alpha, prior_beta |-> 1, n_samples |-> n_samples,
                  credible_interval |-> credible_interval,
                  rope_lower |-> rope[1], rope_upper |-> rope[2]]
            r == beta_binomial(control[1], control[2], treatment[1], treatment[2], prior_alpha, 1, n_samples, credible_interval, rope[1], rope[2])
        IN  /\ op' = "beta_binomial"
            /\ args' = a
            /\ ret' = r.ret
            /\ err' = r.err
            /\ kept' = Between("beta_binomial", a)

NormalNormal ==
    /\ op = "none"
    /\ UNCHANGED <<pcg, global_rng, threads, heap>>
    /\ \E control_values \in NormalSamples, treatment_values \in NormalSamples, n_samples \in 1..MaxSamples, credible_interval \in CredibleIntervals, rope \in Ropes :
        LET a == [control_values |-> control_values, treatment_values |-> treatment_values,
                  prior_mu |-> 0, prior_sigma |-> 100, n_samples |-> n_samples,
                  credible_interval |-> credible_interval,
                  rope_lower |-> rope[1], rope_upper |-> rope[2], use_mcmc |-> FALSE]
            r == normal_normal(control_values, treatment_values, 0, 100, n_samples, credible_interval, rope[1], rope[2])
        IN  /\ op' = "normal_normal"
            /\ args' = a
            /\ ret' = r.ret
            /\ err' = r.err
            /\ kept' = Between("normal_normal", a)

\* other code of the process draws from, or reseeds, the global generator
GlobalRandom ==
    /\ op = "none"
    /\ global_rng' \in GlobalStreams \ {global_rng}
    /\ UNCHANGED <<op, args, ret, err, pcg, kept, threads, heap>>

\* the caller keeps the call and its result
Keep ==
    /\ op \in BayesOps
    /\ kept = NoCall
    /\ Watched(op, args)
    /\ kept' = [op |-> op, args |-> args, ret |-> ret, err |-> err,
                global_rng |-> global_rng, between |-> FALSE]
    /\ op' = "none"
    /\ args' = [p_values |-> <<>>]
    /\ ret' = <<>>
    /\ err' = NoError
    /\ UNCHANGED <<pcg, global_rng, threads, heap>>

NextBayesian ==
    \/ BetaBinomial
    \/ NormalNormal
    \/ GlobalRandom
    \/ Keep
    \/ Discard

SpecBayesian == InitBayesian /\ [][NextBayesian]_vars

\* the call just made is the call that was kept, made again
SameCallAgain ==
    /\ op \in BayesOps
    /\ kept # NoCall
    /\ kept.op = op
    /\ kept.args = args

\* C11: a call of beta_binomial or of the analytic normal_normal with the
\* arguments of an earlier call returns the record (or raises the error) of
\* the earlier call, whatever calls were made in between and whatever the
\* state of the process-global generator at either call
C11_SameArgumentsSameResult ==
    SameCallAgain => ret = kept.ret /\ err = kept.err

\* the same call made again after another call, with the global generator
\* in another state than at the first call
C11_Witness ==
    /\ SameCallAgain
    /\ kept.between
    /\ kept.global_rng # global_rng
    /\ err = NoError

\* the posterior samples the call just made drew
PosteriorSamples ==
    IF op = "beta_binomial"
    THEN beta_samples(args.control_conversions, args.control_total, args.treatment_conversions, args.treatment_total, args.prior_alpha, args.prior_beta, args.n_samples)
    ELSE normal_samples(args.control_values, args.treatment_values, args.prior_mu, args.prior_sigma, args.n_samples)

\* the posterior difference samples that are numbers, as a bag of indices
DiffAt(i) == PosteriorSamples.t[i] - PosteriorSamples.c[i]

\* the indices of the samples whose difference is a number
Numbers ==
    {i \in 1..args.n_samples : PosteriorSamples.t[i] # NaN /\ PosteriorSamples.c[i] # NaN}

AboveRope == {i \in Numbers : DiffAt(i) > args.rope_upper}

InRope == {i \in Numbers : DiffAt(i) >= args.rope_lower /\ DiffAt(i) <= args.rope_upper}

BelowRope == {i \in Numbers : DiffAt(i) < args.rope_lower}

\* more than 0.95 of the samples are in the set
MostIn(S) == 100 * Cardinality(S) > 95 * args.n_samples

\* a call of a Bayesian procedure has returned a record
BayesReturned == op \in BayesOps /\ err = NoError

\* C13: the ROPE decision is reject exactly when more than 0.95 of the
\* posterior difference samples are above rope_upper, accept exactly when
\* more than 0.95 are inside [rope_lower, rope_upper], and undecided in
\* every other case, also when more than 0.95 are below rope_lower; the
\* two conditions never hold together
C13_RopeDecision ==
    BayesReturned =>
        /\ ret.rope_decision = "reject" <=> MostIn(AboveRope)
        /\ ret.rope_decision = "accept" <=> MostIn(InRope)
        /\ ret.rope_decision = "undecided" <=> ~MostIn(AboveRope) /\ ~MostIn(InRope)
        /\ ~(MostIn(AboveRope) /\ MostIn(InRope))

\* two samples or more, all below rope_lower: undecided
C13_Witness ==
    /\ BayesReturned
    /\ args.n_samples >= 2
    /\ args.rope_lower <= args.rope_upper
    /\ MostIn(BelowRope)
    /\ ret.rope_decision = "undecided"

\* the number of ROPE regions that count sample i
RegionsOf(i) ==
    Cardinality({r \in {"in", "below", "above"} :
        \/ r = "in" /\ i \in InRope
        \/ r = "below" /\ i \in BelowRope
        \/ r = "above" /\ i \in AboveRope})

\* C14: for rope_lower <= rope_upper every posterior difference sample is
\* counted in exactly one of the three ROPE regions, so the reported
\* rope_prob_in + rope_prob_below + rope_prob_above is 1 up to the rounding
\* of each term to 4 decimals, and each term lies in [0, 1]
C14_RopeSharesSumToOne ==
    BayesReturned /\ args.rope_lower <= args.rope_upper =>
        /\ \A i \in 1..args.n_samples : RegionsOf(i) = 1
        /\ Abs(ret.rope_prob_in + ret.rope_prob_below + ret.rope_prob_above - 10000) <= 1
        /\ \A p \in {ret.rope_prob_in, ret.rope_prob_below, ret.rope_prob_above} :
               p >= 0 /\ p <= 10000

\* the sum over the samples of the positive part of sign * (t - c)
LossSum(sign) ==
    LET Part(i) == Max(sign * DiffAt(i), 0)
        Sum[k \in 0..args.n_samples] == IF k = 0 THEN 0 ELSE Sum[k - 1] + Part(k)
    IN  Sum[args.n_samples]

\* C15: both expected losses of a BayesianResult are >= 0; risk_ratio is
\* the expected loss of choosing treatment divided by the expected loss of
\* choosing control when the latter is > 0, and infinity, not an error,
\* when the expected loss of choosing control is 0
C15_LossesAndRiskRatio ==
    BayesReturned =>
        /\ ret.expected_loss_control # NaN /\ ret.expected_loss_control >= 0
        /\ ret.expected_loss_treatment # NaN /\ ret.expected_loss_treatment >= 0
        /\ Numbers = 1..args.n_samples /\ LossSum(1) > 0 =>
               ret.risk_ratio = RoundHalfEven(LossSum(-1) * 10000, LossSum(1))
        /\ ret.expected_loss_control = 0 => ret.risk_ratio = Infinity

\* the relative-lift samples of normal_normal that are finite: the samples
\* whose mean is expected_lift
LiftSamples ==
    LET IsFinite(x) == x # NaN
        lift == [i \in 1..args.n_samples |->
                    IF i \in Numbers
                    THEN LiftOf(DiffAt(i), Abs(PosteriorSamples.c[i]))
                    ELSE NaN]
    IN  SelectSeq(lift, IsFinite)

\* C16: normal_normal takes hdi_lower and hdi_upper as beta_binomial does,
\* as the (1 - credible_interval) / 2 percentile tails of the relative-lift
\* samples, the samples whose mean is expected_lift
C16_HdiOfLiftSamples ==
    BayesReturned /\ op = "normal_normal" /\ LiftSamples # <<>> =>
        /\ ret.expected_lift = MeanLift(LiftSamples)
        /\ ret.hdi_lower = Round4Lift(Percentile(LiftSamples, TailOf(args.credible_interval)))
        /\ ret.hdi_upper = Round4Lift(Percentile(LiftSamples, UpperTailOf(args.credible_interval)))

(***************************************************************************)
(* Diagnostics: src/src/analytics/ab_testing/diagnostics.py                *)
(*                                                                         *)
(* A DataFrame is the dtype of its date column and its rows; a date is a   *)
(* day number, NaT the minimum of no date.                                 *)
(***************************************************************************)

\* pd.NaT
NaT == NaN

\* the metric values of one variant on one day
ValueLists == {<<>>, <<0>>, <<0, 0>>, <<0, 1>>, <<1, 1>>}

\* the rows of one variant on one day
RowsOf(variant, day, values) ==
    [i \in 1..Len(values) |-> [metric_date |-> day, variant |-> variant, conversion_rate |-> values[i]]]

\* frames with rows on day 0 and on day 9 for each of two variants
Frames ==
    {[dtype |-> "object", rows |-> RowsOf("control", 0, c0) \o RowsOf("control", 9, c9) \o RowsOf("treatment", 0, t0) \o RowsOf("treatment", 9, t9)] :
        c0 \in ValueLists, c9 \in ValueLists, t0 \in ValueLists, t9 \in ValueLists}

WindowDays == {-1, 0, 7}

\* df.copy()
copy(df) == df

\* df[date_col] = pd.to_datetime(df[date_col]) on the frame df
to_datetime(df) == [df EXCEPT !.dtype = "datetime64[ns]"]

\* df[date_col].min()
MinDate(rows) ==
    IF rows = <<>> THEN NaT
    ELSE CHOOSE d \in {rows[i].metric_date : i \in 1..Len(rows)} :
             \A i \in 1..Len(rows) : d <= rows[i].metric_date

\* df[df[date_col] <= cutoff]; a comparison with NaT is False
EarlyRows(rows, cutoff) ==
    LET Test(r) == cutoff # NaT /\ r.metric_date <= cutoff
    IN  SelectSeq(rows, Test)

\* df[df[date_col] > cutoff]
LateRows(rows, cutoff) ==
    LET Test(r) == cutoff # NaT /\ r.metric_date > cutoff
    IN  SelectSeq(rows, Test)

\* part[part[variant_col] == variant][metric_col].values
ValuesOf(rows, variant) ==
    LET Test(r) == r.variant = variant
        part == SelectSeq(rows, Test)
    IN  [i \in 1..Len(part) |-> part[i].conversion_rate]

\* stats.ttest_ind(a, b, equal_var=False): t (millionths) and the two-sided
\* p-value; with no variance in either sample t is inf or -inf and p is 0
\* when the means differ, and both are nan when they are equal
ttest_ind(a, b) ==
    LET se == welch_se(b, a)
        diff == RatSub(Mean(a), Mean(b))
    IN  IF se = 0
        THEN IF diff[1] = 0 THEN [t |-> NaN, p |-> NaN]
             ELSE [t |-> Sgn(diff[1]) * Infinity, p |-> 0]
        ELSE [t |-> welch_t(b, a).val, p |-> welch_p_value(b, a, "two-sided")]

\* the entry of results for one variant
VariantResult(early_vals, late_vals) ==
    LET test == ttest_ind(early_vals, late_vals)
    IN  [early_mean |-> ToMicro(Mean(early_vals)),
         late_mean |-> ToMicro(Mean(late_vals)),
         t_statistic |-> IF test.t = NaN \/ Abs(test.t) = Infinity THEN test.t ELSE Round4(test.t),
         p_value |-> IF test.p = NaN THEN NaN ELSE Round6Prob(test.p),
         significant |-> test.p # NaN /\ test.p < 5000000]

\* the loop over the variants and the record returned after it
CompareVariants(rows, early, late, window_days) ==
    LET unique == {rows[i].variant : i \in 1..Len(rows)}
        enough == {v \in unique : Len(ValuesOf(early, v)) >= 2 /\ Len(ValuesOf(late, v)) >= 2}
        results == [v \in enough |-> VariantResult(ValuesOf(early, v), ValuesOf(late, v))]
    IN  [detected |-> \E v \in enough : results[v].significant,
         window_days |-> window_days,
         variants |-> results]

Insufficient ==
    [detected |-> FALSE, reason |-> "Insufficient data for early/late comparison"]

\* novelty_detection without the test for an empty split
novelty_detection_unguarded(df, window_days) ==
    LET rows == to_datetime(copy(df)).rows
        cutoff == IF MinDate(rows) = NaT THEN NaT ELSE MinDate(rows) + window_days
    IN  CompareVariants(rows, EarlyRows(rows, cutoff), LateRows(rows, cutoff), window_days)

\* novelty_detection from line 56 on, on the rows of its frame
SplitAndCompare(rows, window_days) ==
    LET cutoff == IF MinDate(rows) = NaT THEN NaT ELSE MinDate(rows) + window_days
        early == EarlyRows(rows, cutoff)
        late == LateRows(rows, cutoff)
    IN  IF early = <<>> \/ late = <<>>
        THEN Insufficient
        ELSE CompareVariants(rows, early, late, window_days)

novelty_detection(df, window_days) == SplitAndCompare(to_datetime(copy(df)).rows, window_days)

NoveltyDetection ==
    /\ op = "none"
    /\ UNCHANGED env
    /\ \E df \in Frames, window_days \in WindowDays :
        /\ op' = "novelty_detection"
        /\ args' = [df |-> df, window_days |-> window_days]
        /\ ret' = novelty_detection(df, window_days)
        /\ err' = NoError

(***************************************************************************)
(* srm_check.  The expected ratios are the fractions the caller wrote; the *)
(* arrays hold the floats nearest to them, on RatioBits significant bits,  *)
(* and their product with the total is rounded likewise.  The chi-square   *)
(* sum is then exact.  <<>> stands for expected_ratios=None.               *)
(***************************************************************************)

\* significant bits of a float of srm_check
RatioBits == 8

\* the float nearest to the fraction r >= 0, ties to even
FlRound(r) ==
    IF r[1] = 0 THEN <<0, 1>>
    ELSE LET s == CHOOSE k \in 0..(2 * RatioBits) :
                      /\ 2^(RatioBits - 1) * r[2] <= r[1] * 2^k
                      /\ r[1] * 2^k < 2^RatioBits * r[2]
         IN  Rat(RoundHalfEven(r[1] * 2^s, r[2]), 2^s)

\* np.array(expected_ratios), uniform when None
ratios_of(observed_counts, expected_ratios) ==
    LET k == Len(observed_counts)
    IN  IF expected_ratios = <<>>
        THEN [i \in 1..k |-> FlRound(Rat(1, k))]
        ELSE [i \in 1..k |-> FlRound(expected_ratios[i])]

\* expected = np.array(expected_ratios) * total
expected_of(observed_counts, expected_ratios) ==
    LET total == SumSeq(observed_counts)
        ratios == ratios_of(observed_counts, expected_ratios)
    IN  [i \in 1..Len(observed_counts) |-> FlRound(RatMul(ratios[i], <<total, 1>>))]

\* np.sum((observed - expected) ** 2 / expected): nan when a term is 0 / 0,
\* else inf when a term is x / 0, else the sum
chi2_of(observed, expected) ==
    LET k == Len(observed)
        Term(i) == LET d == RatSub(<<observed[i], 1>>, expected[i])
                   IN  RatDiv(RatMul(d, d), expected[i])
        Sum[i \in 0..k] == IF i = 0 THEN <<0, 1>> ELSE RatAdd(Sum[i - 1], Term(i))
    IN  IF \E i \in 1..k : expected[i][1] = 0 /\ observed[i] = 0 THEN [kind |-> "nan", val |-> <<0, 1>>]
        ELSE IF \E i \in 1..k : expected[i][1] = 0 THEN [kind |-> "inf", val |-> <<0, 1>>]
        ELSE [kind |-> "number", val |-> Sum[k]]

\* 1 - stats.chi2.cdf(x, df) at the values of chi2 the calls give, in units
\* of 1e-8; nan for df = 0
Chi2GofSf(chi2, df) ==
    CASE df = 1 /\ chi2 = <<0, 1>> -> 100000000
      [] df = 1 /\ chi2 = <<1, 3>> -> 56370286
      [] df = 1 /\ chi2 = <<1, 7136>> -> 99055499
      [] df = 1 /\ chi2 = <<5, 1>> -> 2534732
      [] df = 1 /\ chi2 = <<32, 5>> -> 1141204
      [] df = 1 /\ chi2 = <<121, 25>> -> 2780690
      [] df = 1 /\ chi2 = <<171, 536>> -> 57219125
      [] df = 1 /\ chi2 = <<683, 2128>> -> 57103210
      [] df = 1 /\ chi2 = <<3025, 126>> -> 96
      [] df = 1 /\ chi2 = <<4267, 3424>> -> 26427887
      [] df = 1 /\ chi2 = <<5689, 4544>> -> 26317452
      [] df = 1 /\ chi2 = <<5737, 2944>> -> 16272601
      [] df = 1 /\ chi2 = <<8971, 536>> -> 4294
      [] df = 1 /\ chi2 = <<17067, 6848>> -> 11440730
      [] df = 1 /\ chi2 = <<35883, 2128>> -> 4019
      [] df = 1 /\ chi2 = <<41129, 945024>> -> 83474613
      [] df = 1 /\ chi2 = <<49323, 3424>> -> 14740
      [] df = 1 /\ chi2 = <<68267, 27264>> -> 11356298
      [] df = 1 /\ chi2 = <<197291, 13632>> -> 14221
      [] df = 1 /\ chi2 = <<229581, 118016>> -> 16309012
      [] df = 1 /\ chi2 = <<632683, 263488>> -> 12124350
      [] df = 1 /\ chi2 = <<655267, 15246080>> -> 83576411
      [] df = 1 /\ chi2 = <<1553209, 64224>> -> 88
      [] df = 1 /\ chi2 = <<25142551, 1317440>> -> 1251
      [] df = 1 /\ chi2 = <<50675579, 21183872>> -> 12194368
      [] df = 1 /\ chi2 = <<403062651, 21183872>> -> 1289
      [] df = 2 /\ chi2 = <<0, 1>> -> 100000000
      [] df = 2 /\ chi2 = <<1, 1>> -> 60653066
      [] df = 2 /\ chi2 = <<4, 3>> -> 51341712
      [] df = 0 -> NaN

\* p_value = 1 - stats.chi2.cdf(chi2, df=len(observed) - 1)
gof_p_value(chi2, df) ==
    IF chi2.kind = "nan" \/ df = 0 THEN NaN
    ELSE IF chi2.kind = "inf" THEN 0
    ELSE Chi2GofSf(chi2.val, df)

\* p_value <= threshold
is_srm_at_most(p_value, threshold) == p_value # NaN /\ p_value <= threshold

\* bool(p_value < threshold)
is_srm(p_value, threshold) == p_value # NaN /\ p_value < threshold

srm_check(observed_counts, expected_ratios, threshold) ==
    LET expected == expected_of(observed_counts, expected_ratios)
        chi2 == chi2_of(observed_counts, expected)
        p_value == gof_p_value(chi2, Len(observed_counts) - 1)
    IN  [chi_square |-> IF chi2.kind = "nan" THEN NaN
                        ELSE IF chi2.kind = "inf" THEN Infinity
                        ELSE Round4(ToMicro(chi2.val)),
         p_value |-> IF p_value = NaN THEN NaN ELSE Round6Prob(p_value),
         is_srm |-> is_srm(p_value, threshold),
         expected_counts |-> [i \in 1..Len(expected) |-> expected[i][1] \div expected[i][2]],
         observed_counts |-> observed_counts,
         threshold |-> threshold]

ObservedCounts ==
    {<<5, 5>>, <<7, 18>>, <<18, 7>>, <<1, 2>>, <<0, 5>>, <<0, 0>>, <<3>>, <<2, 2, 2>>, <<1, 2, 3>>, <<9, 1>>}

\* the expected ratios a caller writes for the counts; <<>> is None
ExpectedRatios(observed_counts) ==
    CASE Len(observed_counts) = 1 -> {<<>>, <<<<1, 1>>>>}
      [] Len(observed_counts) = 2 ->
            {<<>>, <<<<1, 2>>, <<1, 2>>>>, <<<<1, 3>>, <<2, 3>>>>, <<<<0, 1>>, <<1, 1>>>>}
                \cup (IF SumSeq(observed_counts) = 25 THEN {<<<<7, 25>>, <<18, 25>>>>} ELSE {})
      [] Len(observed_counts) = 3 -> {<<>>, <<<<1, 6>>, <<1, 3>>, <<1, 2>>>>}

\* 0.001 (the default), 0.5 and 1.0
Thresholds == {100000, 50000000, ProbOne}

SrmCheck ==
    /\ op = "none"
    /\ UNCHANGED env
    /\ \E observed_counts \in ObservedCounts, threshold \in Thresholds :
        \E expected_ratios \in ExpectedRatios(observed_counts) :
            /\ op' = "srm_check"
            /\ args' = [observed_counts |-> observed_counts, expected_ratios |-> expected_ratios, threshold |-> threshold]
            /\ ret' = srm_check(observed_counts, expected_ratios, threshold)
            /\ err' = NoError

(***************************************************************************)
(* cuped.  A float of the arrays is <<m, e>>, the number m * 2^e with m    *)
(* odd of at most RatioBits bits, or <<0, 0>>; every operation of numpy    *)
(* gives the float nearest to the exact result, ties to even.              *)
(***************************************************************************)

RECURSIVE Canon(_, _)
\* m * 2^e with the factors 2 of m moved into the exponent
Canon(m, e) ==
    IF m = 0 THEN <<0, 0>>
    ELSE IF m % 2 = 0 THEN Canon(m \div 2, e + 1)
    ELSE <<m, e>>

\* the number of bits of n >= 0
BitLen(n) == CHOOSE k \in 0..30 : (k = 0 /\ n = 0) \/ (k > 0 /\ 2^(k - 1) <= n /\ n < 2^k)

\* the float nearest to m * 2^e
FlNearest(m, e) ==
    LET s == BitLen(Abs(m)) - RatioBits
    IN  IF s <= 0 THEN Canon(m, e)
        ELSE Canon(Sgn(m) * RoundHalfEven(Abs(m), 2^s), e + s)

\* the position of the leading bit of a # 0
LeadBit(a) == a[2] + BitLen(Abs(a[1])) - 1

\* a + b; an operand below a quarter of the last place of the other is lost
np_add(a, b) ==
    IF a[1] = 0 THEN b
    ELSE IF b[1] = 0 THEN a
    ELSE IF LeadBit(b) < LeadBit(a) - RatioBits - 1 THEN a
    ELSE IF LeadBit(a) < LeadBit(b) - RatioBits - 1 THEN b
    ELSE LET e == Min(a[2], b[2])
         IN  FlNearest(a[1] * 2^(a[2] - e) + b[1] * 2^(b[2] - e), e)

np_subtract(a, b) == np_add(a, <<-b[1], b[2]>>)

np_multiply(a, b) == FlNearest(a[1] * b[1], a[2] + b[2])

\* a / b for b # 0
np_divide(a, b) ==
    IF a[1] = 0 THEN <<0, 0>>
    ELSE LET s0 == RatioBits - 1 + BitLen(Abs(b[1])) - BitLen(Abs(a[1]))
             s == IF 2^(RatioBits - 1) * Abs(b[1]) <= Abs(a[1]) * 2^s0 THEN s0 ELSE s0 + 1
         IN  Canon(Sgn(a[1]) * Sgn(b[1]) * RoundHalfEven(Abs(a[1]) * 2^s, Abs(b[1])), a[2] - b[2] - s)

\* float(n) of an integer
np_float(n) == FlNearest(n, 0)

\* np.asarray(v, dtype=float) of the decimal fractions <<p, q>> of v
asarray(v) == [i \in 1..Len(v) |-> np_divide(np_float(v[i][1]), np_float(v[i][2]))]

\* np.add.reduce(v)
np_sum(v) ==
    LET Acc[i \in 0..Len(v)] == IF i = 0 THEN <<0, 0>> ELSE np_add(Acc[i - 1], v[i])
    IN  Acc[Len(v)]

\* v.mean() of a non-empty array
np_mean(v) == np_divide(np_sum(v), np_float(Len(v)))

\* v - v.mean()
Centered(v) == [i \in 1..Len(v) |-> np_subtract(v[i], np_mean(v))]

\* np.cov(y, x)[0, 1] for arrays of 2 items or more
np_cov(y, x) ==
    LET dy == Centered(y)
        dx == Centered(x)
    IN  np_divide(np_sum([i \in 1..Len(y) |-> np_multiply(dy[i], dx[i])]), np_float(Len(y) - 1))

\* np.var(v, ddof=1) for an array of 2 items or more
np_var(v) == np_cov(v, v)

\* v[mask]
Masked(v, variant, label) ==
    LET Pos == {i \in 1..Len(v) : variant[i] = label}
        Pick[i \in 0..Len(v)] ==
            IF i = 0 THEN <<>>
            ELSE IF i \in Pos THEN Append(Pick[i - 1], v[i]) ELSE Pick[i - 1]
    IN  Pick[Len(v)]

\* round(a, digits) of the float a as a multiple of 10^-digits
round(a, digits) ==
    IF a[2] >= 0 THEN a[1] * 2^a[2] * 10^digits
    ELSE IF -a[2] > 30 THEN 0
    ELSE Sgn(a[1]) * RoundHalfEven(Abs(a[1]) * 10^digits, 2^(-a[2]))

\* theta = cov_yx / var_x if var_x > 0 else 0
theta_of(cov_yx, var_x) == IF var_x[1] > 0 THEN np_divide(cov_yx, var_x) ELSE <<0, 0>>

\* y_adj = y - theta * (x - x.mean())
y_adj_of(y, x, theta) ==
    LET dx == Centered(x)
    IN  [i \in 1..Len(y) |-> np_subtract(y[i], np_multiply(theta, dx[i]))]

cuped(y_in, x_in, variant) ==
    LET y == asarray(y_in)
        x == asarray(x_in)
        theta == theta_of(np_cov(y, x), np_var(x))
        y_adj == y_adj_of(y, x, theta)
        original_variance == np_var(y)
        adjusted_variance == np_var(y_adj)
        variance_reduction ==
            IF original_variance[1] > 0
            THEN np_subtract(np_float(1), np_divide(adjusted_variance, original_variance))
            ELSE <<0, 0>>
        adj_control_mean == np_mean(Masked(y_adj, variant, "control"))
        adj_treatment_mean == np_mean(Masked(y_adj, variant, "treatment"))
    IN  [theta |-> round(theta, 6),
         original_variance |-> round(original_variance, 4),
         adjusted_variance |-> round(adjusted_variance, 4),
         variance_reduction |-> round(variance_reduction, 4),
         adjusted_control_mean |-> round(adj_control_mean, 4),
         adjusted_treatment_mean |-> round(adj_treatment_mean, 4),
         adjusted_effect |-> round(np_subtract(adj_treatment_mean, adj_control_mean), 4)]

\* post-experiment values of three units
MetricArrays == {<<<<1, 1>>, <<2, 1>>, <<4, 1>>>>, <<<<0, 1>>, <<1, 1>>, <<1, 1>>>>, <<<<0, 1>>, <<1, 1>>, <<2, 1>>>>}

\* covariates of three units: the constants 0.9, 0.1 and 5.0, and two
\* covariates that vary
CovariateArrays ==
    {<<<<9, 10>>, <<9, 10>>, <<9, 10>>>>, <<<<1, 10>>, <<1, 10>>, <<1, 10>>>>, <<<<5, 1>>, <<5, 1>>, <<5, 1>>>>,
     <<<<0, 1>>, <<1, 1>>, <<2, 1>>>>, <<<<1, 1>>, <<0, 1>>, <<1, 2>>>>}

VariantArrays == {<<"control", "treatment", "treatment">>, <<"control", "control", "treatment">>, <<"treatment", "control", "treatment">>}

Cuped ==
    /\ op = "none"
    /\ UNCHANGED env
    /\ \E y \in MetricArrays, x \in CovariateArrays, variant \in VariantArrays :
        /\ op' = "cuped"
        /\ args' = [y |-> y, x |-> x, variant |-> variant]
        /\ ret' = cuped(y, x, variant)
        /\ err' = NoError

NextDiagnostics == SrmCheck \/ NoveltyDetection \/ Cuped \/ Discard

SpecDiagnostics == Init /\ [][NextDiagnostics]_vars

(***************************************************************************)
(* Properties of the diagnostics                                           *)
(***************************************************************************)

\* the expected counts srm_check computed for the call that returned
SrmExpected == expected_of(args.observed_counts, args.expected_ratios)

\* the p-value of the call before it is rounded for the record
SrmPValue ==
    gof_p_value(chi2_of(args.observed_counts, SrmExpected), Len(args.observed_counts) - 1)

\* every observed count is positive and equals the expected count computed
SrmObservedIsExpected ==
    \A i \in 1..Len(args.observed_counts) :
        /\ args.observed_counts[i] > 0
        /\ SrmExpected[i] = <<args.observed_counts[i], 1>>

\* the observed counts are the total times the ratios the caller wrote
\* (the uniform ratios when none are given), in exact arithmetic
SrmExactlyProportional ==
    LET k == Len(args.observed_counts)
        total == SumSeq(args.observed_counts)
        ratio(i) == IF args.expected_ratios = <<>> THEN <<1, k>> ELSE args.expected_ratios[i]
    IN  \A i \in 1..k : args.observed_counts[i] * ratio(i)[2] = ratio(i)[1] * total

CallRows == args.df.rows

\* the positions of the rows dated up to the first date plus window_days
EarlySplit ==
    {i \in 1..Len(CallRows) : CallRows[i].metric_date <= MinDate(CallRows) + args.window_days}

\* the positions of the rows dated after it
LateSplit ==
    {i \in 1..Len(CallRows) : CallRows[i].metric_date > MinDate(CallRows) + args.window_days}

\* the number of values a variant has in a split
ValuesIn(split, variant) == Cardinality({i \in split : CallRows[i].variant = variant})

\* some variant of the frame has fewer than 2 values in a split
SomeVariantShort ==
    \E i \in 1..Len(CallRows) :
        \/ ValuesIn(EarlySplit, CallRows[i].variant) < 2
        \/ ValuesIn(LateSplit, CallRows[i].variant) < 2

\* C18: novelty_detection returns a record with detected = False and a
\* reason field, and raises nothing, whenever the early split or the late
\* split is empty.
C18_EmptySplitNotDetected ==
    (op = "novelty_detection" /\ (EarlySplit = {} \/ LateSplit = {})) =>
        /\ err = NoError
        /\ ret.detected = FALSE
        /\ "reason" \in DOMAIN ret

\* a frame with rows, all of them in the early split
C18_Witness ==
    /\ op = "novelty_detection"
    /\ CallRows # <<>>
    /\ EarlySplit # {}
    /\ LateSplit = {}
    /\ ret = Insufficient

\* C19: when both splits are non-empty but a variant has fewer than 2 values
\* in its early or its late split, novelty_detection does not raise and
\* returns a result flagged as not detected that carries an explanatory field.
C19_ShortVariantExplained ==
    (op = "novelty_detection" /\ EarlySplit # {} /\ LateSplit # {} /\ SomeVariantShort) =>
        /\ err = NoError
        /\ ret.detected = FALSE
        /\ "reason" \in DOMAIN ret

\* the covariate given to cuped has the same value for every unit
ConstantCovariate == \A i \in 1..Len(args.x) : args.x[i] = args.x[1]

\* the mean of the raw metric values of one arm, as a record field reports it
RawMean(label) == round(np_mean(Masked(asarray(args.y), args.variant, label)), 4)

\* C20: cuped with a constant covariate x uses theta = 0 and makes no
\* adjustment: adjusted_variance equals original_variance, variance_reduction
\* is 0, the adjusted per-arm means equal the raw per-arm means of y, and no
\* error is raised.
C20_ConstantCovariateNoAdjustment ==
    (op = "cuped" /\ ConstantCovariate) =>
        /\ err = NoError
        /\ ret.theta = 0
        /\ ret.adjusted_variance = ret.original_variance
        /\ ret.variance_reduction = 0
        /\ ret.adjusted_control_mean = RawMean("control")
        /\ ret.adjusted_treatment_mean = RawMean("treatment")

(***************************************************************************)
(* Calls running at the same time.  A call is a sequence of steps of its   *)
(* thread, and the steps of the threads interleave.  A thread holds its    *)
(* local variables; a DataFrame or a Generator is an object of the heap    *)
(* that a local variable refers to by its cell.  beta_binomial             *)
(* (bayesian.py 32-35) and novelty_detection (diagnostics.py 53-54) are    *)
(* the procedures that create and write objects.                           *)
(***************************************************************************)

\* another thread is inside a call
OtherRunning(t) == \E u \in Threads \ {t} : threads[u].pc \notin {"idle", "done"}

\* thread t takes a step to the record next, leaving the heap h
Move(t, next, h) ==
    /\ threads' = [threads EXCEPT ![t] = [next EXCEPT !.overlapped = @ \/ OtherRunning(t)]]
    /\ heap' = h
    /\ UNCHANGED <<op, args, ret, err, pcg, global_rng, kept>>

\* the cell of the frame df.copy() returns to thread t, without the copy:
\* the cell of the frame given
copy_cell_alias(t) == 0

\* the cell of the frame df.copy() returns to thread t
copy_cell(t) == t

\* the frames two callers may share
SharedFrames ==
    {[dtype |-> "object", rows |-> RowsOf("control", 0, <<0, 0>>) \o RowsOf("control", 9, <<0, 1>>) \o RowsOf("treatment", 0, <<0, 1>>) \o RowsOf("treatment", 9, <<1, 1>>)],
     [dtype |-> "object", rows |-> RowsOf("control", 0, <<0, 1>>) \o RowsOf("treatment", 0, <<1, 1>>)]}

\* streams of the seeded generator whose first two words differ
ConcurrentStreams == {s \in Streams : s[1] = 1 /\ s[2] # 1}

InitConcurrent ==
    /\ Idle
    /\ threads = [t \in Threads |-> IdleThread]
    /\ heap \in {EmptyHeap(df) : df \in SharedFrames}
    /\ pcg \in ConcurrentStreams
    /\ global_rng = [i \in 1..3 |-> 1]

\* thread t calls beta_binomial
CallBetaBinomial(t) ==
    /\ threads[t].pc = "idle"
    /\ \E treatment \in {<<0, 1>>, <<1, 1>>}, n_samples \in 1..MaxSamples :
        Move(t, [IdleThread EXCEPT
                    !.pc = "default_rng",
                    !.op = "beta_binomial",
                    !.args = [control_conversions |-> 0, control_total |-> 1,
                              treatment_conversions |-> treatment[1], treatment_total |-> treatment[2],
                              prior_alpha |-> 1, prior_beta |-> 1, n_samples |-> n_samples,
                              credible_interval |-> 950, rope_lower |-> -5, rope_upper |-> 5]],
             heap)

\* rng = np.random.default_rng(42)
NewGenerator(t) ==
    /\ threads[t].pc = "default_rng"
    /\ Move(t, [threads[t] EXCEPT !.pc = "samples_c"],
            [heap EXCEPT !.generators[t] = default_rng(42)])

\* samples_c = rng.beta(alpha_c, beta_c, n_samples)
SampleControl(t) ==
    /\ threads[t].pc = "samples_c"
    /\ LET a == threads[t].args
           d == rng_beta(heap.generators[t], a.prior_alpha + a.control_conversions,
                         a.prior_beta + a.control_total - a.control_conversions, a.n_samples)
       IN  Move(t, [threads[t] EXCEPT !.pc = "samples_t", !.samples_c = d.out],
                [heap EXCEPT !.generators[t] = d.rng])

\* samples_t = rng.beta(alpha_t, beta_t, n_samples)
SampleTreatment(t) ==
    /\ threads[t].pc = "samples_t"
    /\ LET a == threads[t].args
           d == rng_beta(heap.generators[t], a.prior_alpha + a.treatment_conversions,
                         a.prior_beta + a.treatment_total - a.treatment_conversions, a.n_samples)
       IN  Move(t, [threads[t] EXCEPT !.pc = "bayesian_result", !.samples_t = d.out],
                [heap EXCEPT !.generators[t] = d.rng])

\* the rest of beta_binomial: it reads the samples only
ReturnBetaBinomial(t) ==
    /\ threads[t].pc = "bayesian_result"
    /\ LET a == threads[t].args
       IN  Move(t, [threads[t] EXCEPT
                       !.pc = "done",
                       !.ret = beta_binomial_result(threads[t].samples_c, threads[t].samples_t,
                                                    a.credible_interval, a.rope_lower, a.rope_upper)],
                heap)

\* thread t calls novelty_detection with the frame of cell 0
CallNoveltyDetection(t) ==
    /\ threads[t].pc = "idle"
    /\ \E window_days \in {0, 7} :
        Move(t, [IdleThread EXCEPT
                    !.pc = "copy",
                    !.op = "novelty_detection",
                    !.args = [df |-> 0, window_days |-> window_days],
                    !.given = heap.frames[0],
                    !.df = 0],
             heap)

\* df = df.copy()
CopyFrame(t) ==
    /\ threads[t].pc = "copy"
    /\ Move(t, [threads[t] EXCEPT !.pc = "to_datetime", !.df = copy_cell(t)],
            [heap EXCEPT !.frames[copy_cell(t)] = copy(heap.frames[threads[t].df])])

\* df[date_col] = pd.to_datetime(df[date_col]): a write into the frame df
ConvertDates(t) ==
    /\ threads[t].pc = "to_datetime"
    /\ Move(t, [threads[t] EXCEPT !.pc = "compare"],
            [heap EXCEPT !.frames[threads[t].df] = to_datetime(@)])

\* the rest of novelty_detection: it reads its frame only
ReturnNoveltyDetection(t) ==
    /\ threads[t].pc = "compare"
    /\ Move(t, [threads[t] EXCEPT
                   !.pc = "done",
                   !.ret = SplitAndCompare(heap.frames[threads[t].df].rows, threads[t].args.window_days)],
            heap)

\* the caller takes the result; the objects of the call are collected
Finish(t) ==
    /\ threads[t].pc = "done"
    /\ threads' = [threads EXCEPT ![t] = IdleThread]
    /\ heap' = [heap EXCEPT !.frames[t] = NoFrame, !.generators[t] = NoGenerator]
    /\ UNCHANGED <<op, args, ret, err, pcg, global_rng, kept>>

NextConcurrent ==
    \E t \in Threads :
        \/ CallBetaBinomial(t)
        \/ NewGenerator(t)
        \/ SampleControl(t)
        \/ SampleTreatment(t)
        \/ ReturnBetaBinomial(t)
        \/ CallNoveltyDetection(t)
        \/ CopyFrame(t)
        \/ ConvertDates(t)
        \/ ReturnNoveltyDetection(t)
        \/ Finish(t)

SpecConcurrent == InitConcurrent /\ [][NextConcurrent]_vars

\* what the call of a thread returns when no other call runs
AloneResult(th) ==
    IF th.op = "beta_binomial"
    THEN beta_binomial(th.args.control_conversions, th.args.control_total, th.args.treatment_conversions, th.args.treatment_total, th.args.prior_alpha, th.args.prior_beta, th.args.n_samples, th.args.credible_interval, th.args.rope_lower, th.args.rope_upper).ret
    ELSE novelty_detection(th.given, th.args.window_days)

\* C12: the engine procedures share no mutable state: in every interleaving
\* of the steps of calls running in different threads, each call returns
\* what it returns when run alone, and the frame a call was given is what it
\* was when the call was made.
C12_CallsDoNotInterfere ==
    \A t \in Threads :
        /\ threads[t].op = "novelty_detection" => heap.frames[threads[t].args.df] = threads[t].given
        /\ threads[t].pc = "done" => threads[t].ret = AloneResult(threads[t])

\* two calls of novelty_detection on the same frame have each returned
\* after steps taken while the other ran
C12_Witness ==
    /\ \A t \in Threads : threads[t].pc = "done" /\ threads[t].overlapped
    /\ threads[1].op = "novelty_detection"
    /\ threads[2].op = "novelty_detection"
    /\ "variants" \in DOMAIN threads[1].ret
    /\ heap.frames[0].dtype = "object"
    /\ heap.frames[1].dtype = "datetime64[ns]"

(***************************************************************************)
(* Power: src/src/analytics/ab_testing/power.py                            *)
(*                                                                         *)
(* Rates and effects are fractions <<n, d>>, alpha and power are in units  *)
(* of 10^-8, z-scores and the real-valued sample size in millionths.       *)
(***************************************************************************)

\* a field that holds None
None == "None"

\* stats.norm.ppf(q) in millionths, for q in units of 10^-8
norm_ppf(q) ==
    CASE q = 20000000 -> -841621
      [] q = 50000000 -> 0
      [] q = 75000000 -> 674490
      [] q = 80000000 -> 841621
      [] q = 95000000 -> 1644854
      [] q = 97500000 -> 1959964

\* a * b of two signed values in millionths
SignedMul(a, b) == Sgn(a) * Sgn(b) * MulScaled(Abs(a), Abs(b))

\* x / r of a value in millionths by the fraction r # 0
DivByRat(x, r) == Sgn(x) * Sgn(r[1]) * RoundHalfEven(Abs(x) * r[2], Abs(r[1]))

\* int(np.ceil(n)) of n in millionths
CeilMicro(n) == -((-n) \div 1000000)

\* z_alpha of both sample size procedures
z_alpha_of(alpha, alternative) ==
    IF alternative = "two-sided"
    THEN norm_ppf(ProbOne - alpha \div 2)
    ELSE norm_ppf(ProbOne - alpha)

PowerResult(n, power, alpha, mde, baseline_rate) ==
    [required_sample_size |-> n * 2,
     required_sample_per_variant |-> n,
     estimated_days |-> None,
     power |-> power,
     alpha |-> alpha,
     mde |-> mde,
     baseline_rate |-> baseline_rate,
     cuped_adjusted_size |-> None,
     variance_reduction |-> None]

\* np.sqrt of a negative number is nan, and int(np.ceil(nan)) raises
sample_size_proportion(baseline_rate, mde, alpha, power, alternative) ==
    LET p1 == baseline_rate
        p2 == RatAdd(baseline_rate, mde)
        z_alpha == z_alpha_of(alpha, alternative)
        z_beta == norm_ppf(power)
        v1 == RatMul(p1, RatSub(<<1, 1>>, p1))
        v2 == RatMul(p2, RatSub(<<1, 1>>, p2))
        pooled == RatMul(<<2, 1>>, v1)
        unpooled == RatAdd(v1, v2)
    IN  IF pooled[1] < 0 \/ unpooled[1] < 0
        THEN [ret |-> <<>>, err |-> ValueError]
        ELSE LET x == DivByRat(SignedMul(z_alpha, SqrtRat(pooled)) + SignedMul(z_beta, SqrtRat(unpooled)), RatSub(p2, p1))
                 n == CeilMicro(SignedMul(x, x))
             IN  [ret |-> PowerResult(n, power, alpha, mde, baseline_rate), err |-> NoError]

sample_size_mean(baseline_mean, baseline_std, mde_absolute, alpha, power, alternative) ==
    LET z_alpha == z_alpha_of(alpha, alternative)
        z_beta == norm_ppf(power)
        x == DivByRat((z_alpha + z_beta) * baseline_std, mde_absolute)
        n == CeilMicro(2 * SignedMul(x, x))
    IN  [ret |-> PowerResult(n, power, alpha, mde_absolute, baseline_mean), err |-> NoError]

\* the float variance_reduction of a call that wrote the decimal fraction v
FloatOf(v) == np_divide(np_float(v[1]), np_float(v[2]))

\* int(np.ceil(x)) of a float x >= 0
np_ceil(x) == IF x[2] >= 0 THEN x[1] * 2^x[2] ELSE (x[1] + 2^(-x[2]) - 1) \div 2^(-x[2])

\* original_result.required_sample_per_variant * factor
scaled_size(per_variant, variance_reduction) ==
    LET factor == np_subtract(np_float(1), FloatOf(variance_reduction))
    IN  np_multiply(np_float(per_variant), factor)

adjust_for_cuped(original_result, variance_reduction) ==
    LET adjusted_per_variant == np_ceil(scaled_size(original_result.required_sample_per_variant, variance_reduction))
    IN  [original_result EXCEPT
            !.required_sample_size = adjusted_per_variant * 2,
            !.required_sample_per_variant = adjusted_per_variant,
            !.cuped_adjusted_size = adjusted_per_variant * 2,
            !.variance_reduction = variance_reduction]

\* alpha and power: 0.05, 0.5 and 0.8, 0.5, 0.2
PowerAlphas == {5000000, 50000000}
Powers == {80000000, 50000000, 20000000}
PowerAlternatives == {"two-sided", "greater"}

\* baseline rates 0.5, 0.1 and effects 0.1, -0.1, 0.5, 0.9
BaselineRates == {<<1, 2>>, <<1, 10>>}
Effects == {<<1, 10>>, <<-1, 10>>, <<1, 2>>, <<9, 10>>}

\* standard deviations and absolute effects 1, -1, 0.5
StdDevs == {0, 1, 2}
AbsoluteEffects == {<<1, 1>>, <<-1, 1>>, <<1, 2>>}

\* per-variant sizes of the result given to adjust_for_cuped, and the
\* variance reductions 0, 0.3, 0.6, 0.7, 0.9, 1
OriginalSizes == {1, 5, 10, 20}
VarianceReductions == {<<0, 1>>, <<3, 10>>, <<3, 5>>, <<7, 10>>, <<9, 10>>, <<1, 1>>}

SampleSizeProportion ==
    /\ op = "none"
    /\ UNCHANGED env
    /\ \E baseline_rate \in BaselineRates, mde \in Effects, alpha \in PowerAlphas, power \in Powers, alternative \in PowerAlternatives :
        LET r == sample_size_proportion(baseline_rate, mde, alpha, power, alternative)
        IN  /\ op' = "sample_size_proportion"
            /\ args' = [baseline_rate |-> baseline_rate, mde |-> mde, alpha |-> alpha, power |-> power, alternative |-> alternative]
            /\ ret' = r.ret
            /\ err' = r.err

SampleSizeMean ==
    /\ op = "none"
    /\ UNCHANGED env
    /\ \E baseline_std \in StdDevs, mde_absolute \in AbsoluteEffects, alpha \in PowerAlphas, power \in Powers, alternative \in PowerAlternatives :
        LET r == sample_size_mean(<<50, 1>>, baseline_std, mde_absolute, alpha, power, alternative)
        IN  /\ op' = "sample_size_mean"
            /\ args' = [baseline_mean |-> <<50, 1>>, baseline_std |-> baseline_std, mde_absolute |-> mde_absolute, alpha |-> alpha, power |-> power, alternative |-> alternative]
            /\ ret' = r.ret
            /\ err' = r.err

AdjustForCuped ==
    /\ op = "none"
    /\ UNCHANGED env
    /\ \E per_variant \in OriginalSizes, variance_reduction \in VarianceReductions :
        LET original_result == PowerResult(per_variant, 80000000, 5000000, <<1, 10>>, <<1, 2>>)
        IN  /\ op' = "adjust_for_cuped"
            /\ args' = [original_result |-> original_result, variance_reduction |-> variance_reduction]
            /\ ret' = adjust_for_cuped(original_result, variance_reduction)
            /\ err' = NoError

\* float('inf')
inf == <<1, Infinity>>

\* a < b of two floats
FlLess(a, b) == np_subtract(a, b)[1] < 0

\* min(allocation_ratio, 1.0)
min_ratio(allocation_ratio) ==
    IF FlLess(np_float(1), allocation_ratio) THEN np_float(1) ELSE allocation_ratio

\* effective_daily = daily_traffic * min(allocation_ratio, 1.0)
effective_daily_of(daily_traffic, allocation_ratio) ==
    np_multiply(np_float(daily_traffic), min_ratio(allocation_ratio))

\* estimate_duration without the test of effective_daily
estimate_duration_unguarded(sample_size, daily_traffic, allocation_ratio) ==
    LET effective_daily == effective_daily_of(daily_traffic, allocation_ratio)
    IN  IF effective_daily[1] = 0
        THEN [ret |-> <<0, 0>>, err |-> ZeroDivisionError]
        ELSE [ret |-> np_divide(np_float(sample_size), effective_daily), err |-> NoError]

estimate_duration(sample_size, daily_traffic, allocation_ratio) ==
    LET effective_daily == effective_daily_of(daily_traffic, allocation_ratio)
    IN  IF effective_daily[1] > 0
        THEN [ret |-> np_divide(np_float(sample_size), effective_daily), err |-> NoError]
        ELSE [ret |-> inf, err |-> NoError]

SampleSizes == {0, 10, 100, 200}
DailyTraffics == {-10, 0, 1, 10, 100}

\* allocation ratios -0.5, 0, 0.1, 0.25, 0.5, 1.0, 1.5, 2.0
AllocationRatios == {<<-1, 2>>, <<0, 1>>, <<1, 10>>, <<1, 4>>, <<1, 2>>, <<1, 1>>, <<3, 2>>, <<2, 1>>}

EstimateDuration ==
    /\ op = "none"
    /\ UNCHANGED env
    /\ \E sample_size \in SampleSizes, daily_traffic \in DailyTraffics, ratio \in AllocationRatios :
        LET allocation_ratio == IF ratio[1] < 0 THEN <<-FloatOf(<<-ratio[1], ratio[2]>>)[1], FloatOf(<<-ratio[1], ratio[2]>>)[2]>> ELSE FloatOf(ratio)
            r == estimate_duration(sample_size, daily_traffic, allocation_ratio)
        IN  /\ op' = "estimate_duration"
            /\ args' = [sample_size |-> sample_size, daily_traffic |-> daily_traffic, allocation_ratio |-> allocation_ratio]
            /\ ret' = r.ret
            /\ err' = r.err

NextPower == SampleSizeProportion \/ SampleSizeMean \/ AdjustForCuped \/ EstimateDuration \/ Discard

SpecPower == Init /\ [][NextPower]_vars

PowerProcedures == {"sample_size_proportion", "sample_size_mean", "adjust_for_cuped"}

\* C21: every PowerResult returned by sample_size_proportion, sample_size_mean
\* (with a positive standard deviation) or adjust_for_cuped, for alpha and
\* power in (0,1), a non-zero effect and variance_reduction in [0,1], has a
\* positive required_sample_per_variant and required_sample_size equal to
\* twice that.
C21_PositiveSampleSizes ==
    (/\ op \in PowerProcedures
     /\ op = "sample_size_mean" => args.baseline_std > 0)
        => /\ err = NoError
           /\ ret.required_sample_per_variant > 0
           /\ ret.required_sample_size = 2 * ret.required_sample_per_variant

\* ceil(per_variant * (1 - variance_reduction)) in exact arithmetic
ExactScaledSize(per_variant, variance_reduction) ==
    -((-(per_variant * (variance_reduction[2] - variance_reduction[1]))) \div variance_reduction[2])

\* C22: adjust_for_cuped returns the original per-variant size scaled by
\* (1 - variance_reduction) and rounded up; the size is unchanged for
\* variance_reduction = 0, never larger than the original, and strictly
\* smaller when original * variance_reduction >= 1.
C22_ScaledAndRoundedUp ==
    op = "adjust_for_cuped" =>
        LET original == args.original_result.required_sample_per_variant
            vr == args.variance_reduction
            adjusted == ret.required_sample_per_variant
        IN  /\ adjusted = ExactScaledSize(original, vr)
            /\ vr[1] = 0 => adjusted = original
            /\ adjusted <= original
            /\ original * vr[1] >= vr[2] => adjusted < original

\* C22, the part that holds of the float computation
C22_NeverLarger ==
    op = "adjust_for_cuped" =>
        LET original == args.original_result.required_sample_per_variant
            vr == args.variance_reduction
            adjusted == ret.required_sample_per_variant
        IN  /\ vr[1] = 0 => adjusted = original
            /\ adjusted <= original
            /\ original * vr[1] >= vr[2] => adjusted < original

\* the number a float stands for, as a fraction
ExactOf(a) == IF a[2] >= 0 THEN <<a[1] * 2^a[2], 1>> ELSE Rat(a[1], 2^(-a[2]))

\* |a - b| <= b / 2^bits
WithinRelative(a, b, bits) ==
    LET diff == RatAbs(RatSub(a, b))
    IN  diff[1] * 2^bits * b[2] <= b[1] * diff[2]

\* C23: estimate_duration returns sample_size / (daily_traffic *
\* min(allocation_ratio, 1)), to the rounding of the float product and
\* quotient, when that effective daily traffic is positive, and infinity
\* without an error when it is 0 (or negative); an allocation_ratio above 1 gives the
\* duration of allocation_ratio 1.
C23_DurationOrInfinity ==
    op = "estimate_duration" =>
        LET ratio == ExactOf(args.allocation_ratio)
            effective == RatMul(<<args.daily_traffic, 1>>, RatMin(ratio, <<1, 1>>))
            quotient == RatDiv(<<args.sample_size, 1>>, effective)
            exact_product == ExactOf(effective_daily_of(args.daily_traffic, args.allocation_ratio)) = effective
        IN  /\ err = NoError
            /\ effective[1] > 0 =>
                /\ ret # inf
                /\ WithinRelative(ExactOf(ret), quotient, IF exact_product THEN RatioBits ELSE RatioBits - 2)
            /\ effective[1] <= 0 => ret = inf
            /\ ratio[1] > ratio[2] =>
                ret = estimate_duration(args.sample_size, args.daily_traffic, np_float(1)).ret

\* C23 witness: no traffic is allocated and the duration is infinite
C23_Witness ==
    /\ op = "estimate_duration"
    /\ args.sample_size > 0
    /\ args.daily_traffic > 0
    /\ args.allocation_ratio[1] = 0
    /\ err = NoError
    /\ ret = inf

\* C23 witness: a ratio above 1 is capped
C23_WitnessCapped ==
    /\ op = "estimate_duration"
    /\ args.sample_size = 100
    /\ args.daily_traffic = 10
    /\ args.allocation_ratio = np_float(2)
    /\ ret = np_float(10)


(***************************************************************************)
(* Result records in the hands of the caller.  models.py declares every    *)
(* result class with a plain @dataclass, which generates __init__, __repr__ *)
(* and __eq__ and leaves attribute assignment as it is for any object.     *)
(***************************************************************************)

\* @dataclass (the frozen parameter keeps its default)
frozen == FALSE

FrozenInstanceError == [type |-> "FrozenInstanceError"]

\* obj.name = value
setattr(obj, name, value) ==
    IF frozen
    THEN [ret |-> obj, err |-> FrozenInstanceError]
    ELSE [ret |-> [obj EXCEPT ![name] = value], err |-> NoError]

\* the fields the callers of the model assign to, and the values assigned
AssignedFields == {"required_sample_size", "required_sample_per_variant", "threshold"}
AssignedValues == {0, 1}

RecordProcedures == PowerProcedures \cup {"srm_check"}

\* a caller holding a returned record assigns to one of its fields
SetField ==
    /\ op \in RecordProcedures
    /\ err = NoError
    /\ \E name \in AssignedFields \cap DOMAIN ret, value \in AssignedValues :
        LET r == setattr(ret, name, value)
        IN  /\ ret' = r.ret
            /\ err' = r.err
    /\ UNCHANGED <<op, args, env>>

NextRecords ==
    SampleSizeProportion \/ SampleSizeMean \/ AdjustForCuped \/ SrmCheck \/ SetField \/ Discard

SpecRecords == Init /\ [][NextRecords]_vars

\* C24: once a procedure has returned a result record, no later step, an
\* assignment to a field by the caller included, changes any of its fields.
C24_RecordsImmutable ==
    [][(op # "none" /\ op' = op) => ret' = ret]_vars


(***************************************************************************)
(* A monitoring run: the caller analyses look 1, then the next look while  *)
(* the decision is continue, and ends the run at the first other decision. *)
(***************************************************************************)

\* the plans of the runs: max_looks of 1 and more, either spending function
PlannedLooks == 1..MaxLooks
PlannedSpending == {"obrien-fleming", "pocock"}

\* the statistics observed at the looks: 0, 1.5, 2.0, 5.0
ObservedZ == {0, 1500000, 2000000, 5000000}

\* the first look of a run
StartRun ==
    /\ op = "none"
    /\ UNCHANGED env
    /\ \E z \in ObservedZ, ml \in PlannedLooks, a \in SeqAlphas, sf \in PlannedSpending :
        LET r == interim_analysis(z, 1, ml, a, sf)
        IN  /\ op' = "interim_analysis"
            /\ args' = [z_stat |-> z, current_look |-> 1, max_looks |-> ml,
                        alpha |-> a, spending_function |-> sf]
            /\ ret' = r.ret
            /\ err' = r.err

\* the look after a decision to continue, with the statistic observed by then
NextLook ==
    /\ Returned("interim_analysis")
    /\ ret.decision = "continue"
    /\ UNCHANGED env
    /\ op' = op
    /\ \E z \in ObservedZ :
        LET r == interim_analysis(z, args.current_look + 1, args.max_looks,
                                  args.alpha, args.spending_function)
        IN  /\ args' = [args EXCEPT !.z_stat = z, !.current_look = @ + 1]
            /\ ret' = r.ret
            /\ err' = r.err

\* the run ends at the first decision other than continue (or at an error)
StopRun ==
    /\ op = "interim_analysis"
    /\ err = NoError => ret.decision # "continue"
    /\ Discard

NextMonitoring == StartRun \/ NextLook \/ StopRun

SpecMonitoring == Init /\ [][NextMonitoring]_vars /\ WF_vars(NextLook)

RunStopped == Returned("interim_analysis") /\ ret.decision \in {"stop_reject", "stop_accept"}

\* C27: in a monitoring run over looks 1, 2, ..., max_looks every look
\* analysed is one of the plan, continue is returned only before look
\* max_looks and stop_accept only at look max_looks, and every run reaches a
\* decision other than continue.
C27_RunStopsByMaxLooks ==
    /\ [](op = "interim_analysis" =>
            /\ err = NoError
            /\ ret.current_look \in 1..ret.max_looks
            /\ ret.decision = "continue" => ret.current_look < ret.max_looks
            /\ ret.decision = "stop_accept" => ret.current_look = ret.max_looks)
    /\ (op = "interim_analysis") ~> RunStopped

\* C27 witness: a run continued up to its final look, the second or later,
\* and was accepted there
C27_Witness ==
    /\ RunStopped
    /\ ret.max_looks >= 2
    /\ ret.current_look = ret.max_looks
    /\ ret.decision = "stop_accept"


(***************************************************************************)
(* The corrections compared with reference procedures and with each other  *)
(***************************************************************************)

\* s with x inserted after the elements that are <= x
Inserted(s, x) ==
    LET k == Cardinality({j \in 1..Len(s) : s[j] <= x})
    IN  SubSeq(s, 1, k) \o <<x>> \o SubSeq(s, k + 1, Len(s))

RECURSIVE Ascending(_)
\* the p-values in ascending order
Ascending(p_values) ==
    IF p_values = <<>> THEN <<>> ELSE Inserted(Ascending(Tail(p_values)), Head(p_values))

\* the largest element of a non-empty set of numbers
Largest(S) == CHOOSE x \in S : \A y \in S : y <= x

\* the step-down value of rank r (1-based): min(1, max over j <= r of
\* p_(j) * (n - (j - 1)))
StepDown(p_values, r) ==
    LET n == Len(p_values)
        sorted_p == Ascending(p_values)
    IN  Min(One, Largest({FlMul(sorted_p[j], n - (j - 1)) : j \in 1..r}))

\* C25: holm_bonferroni returns, at every position of the input list, the
\* record of the reference step-down procedure for the rank of that p-value
\* among the sorted p-values (for every rank an equal p-value has).
C25_HolmIsStepDown ==
    op = "holm_bonferroni" =>
        LET p_values == args.p_values
            n == Len(p_values)
        IN  /\ Len(ret) = n
            /\ \A i \in 1..n :
                \A r \in 1..n :
                    Ascending(p_values)[r] = p_values[i] =>
                        /\ ret[i].original_p = Round6(p_values[i])
                        /\ ret[i].corrected_p = Round6(StepDown(p_values, r))
                        /\ ret[i].significant = (StepDown(p_values, r) < args.alpha)

\* C25 witness: the forward maximum raises the value of the second rank, and
\* the smaller p-value comes second in the input
C25_Witness ==
    /\ op = "holm_bonferroni"
    /\ Len(args.p_values) = 2
    /\ args.p_values[2] < args.p_values[1]
    /\ FlMul(args.p_values[2], 2) > args.p_values[1]
    /\ FlMul(args.p_values[2], 2) < One
    /\ ret[1].corrected_p = ret[2].corrected_p

(***************************************************************************)
(* Rejections and the boundary reported                                    *)
(***************************************************************************)

\* C26 as claimed: whenever interim_analysis returns stop_reject at a look
\* from 1 to max_looks, |z_stat| is at least the boundary_value of the result.
C26_RejectAtOrAboveBoundary ==
    (/\ Returned("interim_analysis")
     /\ args.current_look \in 1..args.max_looks
     /\ ret.decision = "stop_reject")
        => Abs(args.z_stat) >= ret.boundary_value

\* C26 amended: a stop_reject before the final look has |z_stat| at least
\* the boundary_value of the result; a stop_reject at look max_looks has
\* |z_stat| at least the boundary_value or at least the standard two-sided
\* critical value for alpha.
C26_RejectAtBoundaryOrFinalCritical ==
    (/\ Returned("interim_analysis")
     /\ args.current_look \in 1..args.max_looks
     /\ ret.decision = "stop_reject")
        => \/ Abs(args.z_stat) >= ret.boundary_value
           \/ /\ args.current_look = args.max_looks
              /\ Abs(args.z_stat) >= NormPpf(args.alpha, 1)

\* C26 witness: a Pocock plan of several looks rejects at the final look
\* on the standard critical value, below the boundary it reports
C26_Witness ==
    /\ Returned("interim_analysis")
    /\ args.spending_function = "pocock"
    /\ args.max_looks >= 2
    /\ args.current_look = args.max_looks
    /\ ret.decision = "stop_reject"
    /\ Abs(args.z_stat) < ret.boundary_value
    /\ Abs(args.z_stat) >= NormPpf(args.alpha, 1)

(***************************************************************************)
(* The three corrections of one list                                       *)
(***************************************************************************)

\* C28: at every position of every list, the corrected_p of
\* benjamini_hochberg is at most that of holm_bonferroni, which is at most
\* that of bonferroni, and a p-value significant under a more conservative
\* method is significant under a less conservative one.
C28_MethodsOrdered ==
    op = "holm_bonferroni" =>
        LET p_values == args.p_values
            n == Len(p_values)
            bonf == bonferroni(p_values, args.alpha)
        IN  \A indices \in ArgSorts(p_values) :
                LET bh == benjamini_hochberg(p_values, args.alpha, indices)
                IN  \A i \in 1..n :
                        /\ bh[i].corrected_p <= ret[i].corrected_p
                        /\ ret[i].corrected_p <= bonf[i].corrected_p
                        /\ bonf[i].significant => ret[i].significant
                        /\ ret[i].significant => bh[i].significant

(***************************************************************************)
(* Positions, permutations and ties                                        *)
(***************************************************************************)

\* the list with the values of positions a and b exchanged
Swapped(v, a, b) ==
    [i \in 1..Len(v) |-> IF i = a THEN v[b] ELSE IF i = b THEN v[a] ELSE v[i]]

\* the argsort of a stable sort: equal values keep the order of their positions
StableArgSort(p_values) ==
    LET n == Len(p_values)
        before(i) == {j \in 1..n : p_values[j] < p_values[i] \/ (p_values[j] = p_values[i] /\ j < i)}
    IN  [r \in 1..n |-> CHOOSE i \in 1..n : Cardinality(before(i)) = r - 1]

\* the result of a method for a list sorted by the stable sort
ResultOf(method, p_values, alpha) ==
    CASE method = "bonferroni" -> bonferroni(p_values, alpha)
      [] method = "holm_bonferroni" -> holm_bonferroni(p_values, alpha, StableArgSort(p_values))
      [] method = "benjamini_hochberg" -> benjamini_hochberg(p_values, alpha, StableArgSort(p_values))

CorrectionMethods == {"bonferroni", "holm_bonferroni", "benjamini_hochberg"}

\* C29: each correction returns one record for each input p-value, at its
\* position; exchanging two neighbouring values of the input exchanges the
\* two records, whatever order argsort gives to equal values (every
\* permutation is a product of such exchanges, the lists of the model are
\* closed under them, and each result is compared with the result of the
\* stable order for the exchanged list); and equal input p-values receive
\* equal corrected_p and equal significant flags.
C29_EquivariantAndTiesEqual ==
    op \in CorrectionMethods =>
        LET p_values == args.p_values
            n == Len(p_values)
        IN  /\ err = NoError
            /\ Len(ret) = n
            /\ \A i \in 1..n : ret[i].original_p = Round6(p_values[i])
            /\ \A a \in 1..(n - 1) :
                ResultOf(op, Swapped(p_values, a, a + 1), args.alpha) = Swapped(ret, a, a + 1)
            /\ \A i, j \in 1..n :
                p_values[i] = p_values[j] =>
                    /\ ret[i].corrected_p = ret[j].corrected_p
                    /\ ret[i].significant = ret[j].significant

\* C29 witness: Benjamini-Hochberg on a list with two equal values around a
\* smaller one, where the value of the tie is not the input value
C29_Witness ==
    /\ op = "benjamini_hochberg"
    /\ Len(args.p_values) = 3
    /\ args.p_values[1] = args.p_values[3]
    /\ args.p_values[2] < args.p_values[1]
    /\ ret[1].corrected_p = ret[3].corrected_p
    /\ ret[1].corrected_p > ret[1].original_p
    /\ ret[2].corrected_p < ret[1].corrected_p

(***************************************************************************)
(* The expected counts of srm_check                                        *)
(***************************************************************************)

RECURSIVE RatSum(_)
\* the sum of a list of fractions
RatSum(v) == IF v = <<>> THEN <<0, 1>> ELSE RatAdd(Head(v), RatSum(Tail(v)))

\* C30: in every SRMResult the expected_counts sum to the total of the
\* observed_counts when the expected ratios are the default uniform ones or
\* sum to 1.
C30_ExpectedCountsSumToTotal ==
    (/\ op = "srm_check"
     /\ args.expected_ratios = <<>> \/ RatSum(args.expected_ratios) = <<1, 1>>)
        => SumSeq(ret.expected_counts) = SumSeq(args.observed_counts)

====
